---- MODULE Spec2Model ----
(***************************************************************************)
(* A model of decentraland/ecs-math: the Matrix namespace (src/src/        *)
(* Matrix.ts) with its shared version counter and lazily cached identity   *)
(* flags, the Quaternion and Plane operations it is coupled to             *)
(* (src/unnamed/part_001), and the Vector3 namespace in its two versions   *)
(* (src/src/Vector3.ts and src/unnamed/part_004, suffix _part004 where     *)
(* they differ).                                                           *)
(*                                                                         *)
(* Numbers are exact rationals <<n, d>> in lowest terms with d > 0; the    *)
(* inputs are drawn from sets on which the code's square roots are exact,  *)
(* so every value the model computes is the value the code computes.       *)
(* NaN (the sentinel the tests pre-fill outputs with) is <<0, 0>>.         *)
(***************************************************************************)
EXTENDS Integers, Sequences, FiniteSets, TLC

VARIABLES mats, _updateFlagSeed, pc, inp, out

vars == <<mats, _updateFlagSeed, pc, inp, out>>

-----------------------------------------------------------------------------
(* Bounds of the model *)

\* the most matrices the heap of the state machine holds
MaxMats == 2

\* no operation starts once the shared counter has reached this value
MaxSeed == 4

-----------------------------------------------------------------------------
(* Numbers *)

Abs(a) == IF a < 0 THEN -a ELSE a

RECURSIVE GCD(_, _)
GCD(a, b) == IF b = 0 THEN a ELSE GCD(b, a % b)

\* the rational n/d in lowest terms (d # 0)
Rat(n, d) ==
  LET g == GCD(Abs(n), Abs(d))
      s == IF d < 0 THEN -1 ELSE 1
  IN  <<(s * n) \div g, (s * d) \div g>>

R(n) == <<n, 1>>

NaN == <<0, 0>>

IsNaN(a) == a[2] = 0

RAdd(a, b) == IF IsNaN(a) \/ IsNaN(b) THEN NaN
              ELSE IF a[2] = 1 /\ b[2] = 1 THEN <<a[1] + b[1], 1>>
              ELSE Rat(a[1] * b[2] + b[1] * a[2], a[2] * b[2])

RNeg(a) == <<-a[1], a[2]>>

RSub(a, b) == RAdd(a, RNeg(b))

RMul(a, b) == IF IsNaN(a) \/ IsNaN(b) THEN NaN
              ELSE IF a[2] = 1 /\ b[2] = 1 THEN <<a[1] * b[1], 1>>
              ELSE Rat(a[1] * b[1], a[2] * b[2])

\* a / b; the model has no infinities: a quotient by 0 is a value IsNaN
\* holds of, and the model only ever multiplies such a quotient by 0
RDiv(a, b) == IF IsNaN(a) \/ IsNaN(b) THEN NaN
              ELSE Rat(a[1] * b[2], a[2] * b[1])

\* comparisons; any comparison with NaN is false
RLt(a, b) == ~IsNaN(a) /\ ~IsNaN(b) /\ a[1] * b[2] < b[1] * a[2]

RLe(a, b) == ~IsNaN(a) /\ ~IsNaN(b) /\ a[1] * b[2] <= b[1] * a[2]

\* an optional value: None when absent, Some(v) when present
None == <<>>
Some(v) == <<v>>
Given(arg) == Len(arg) = 1

ISqrt(n) == CHOOSE r \in 0..n : r * r = n

\* Math.sqrt on a rational whose root is rational
Sqrt(a) == <<ISqrt(a[1]), ISqrt(a[2])>>

\* the arithmetic of the source, written infix
a (+) b == RAdd(a, b)
a (-) b == RSub(a, b)
a (.) b == RMul(a, b)
a (/) b == RDiv(a, b)

-----------------------------------------------------------------------------
(* Matrix: the record and the two stamping functions *)

\* a Matrix4x4 from its 16 values in order
M16(s) == [i \in 0..15 |-> s[i + 1]]

IdentityValues ==
  M16(<<R(1), R(0), R(0), R(0),  R(0), R(1), R(0), R(0),
        R(0), R(0), R(1), R(0),  R(0), R(0), R(0), R(1)>>)

ZeroValues == [i \in 0..15 |-> R(0)]

\* the module-level state an operation runs in: the matrices and the counter
World(ms, seed) == [mats |-> ms, seed |-> seed]

\* the stamp taken without advancing the shared counter
_markAsUpdated_noIncrement(w, self) ==
  World([w.mats EXCEPT ![self] =
           [@ EXCEPT !.updateFlag = w.seed,
                     !.isIdentity = FALSE,
                     !.isIdentity3x2 = FALSE,
                     !._isIdentityDirty = TRUE,
                     !._isIdentity3x2Dirty = TRUE]],
        w.seed)

_markAsUpdated(w, self) ==
  World([w.mats EXCEPT ![self] =
           [@ EXCEPT !.updateFlag = w.seed,
                     !.isIdentity = FALSE,
                     !.isIdentity3x2 = FALSE,
                     !._isIdentityDirty = TRUE,
                     !._isIdentity3x2Dirty = TRUE]],
        w.seed + 1)

\* a counter kept per matrix instead of the shared one
_updateIdentityStatus_ownCounter(w, self, isIdentity, isIdentityDirty, isIdentity3x2, isIdentity3x2Dirty) ==
  World([w.mats EXCEPT ![self] =
           [@ EXCEPT !.updateFlag = @ + 1,
                     !.isIdentity = isIdentity,
                     !.isIdentity3x2 = isIdentity \/ isIdentity3x2,
                     !._isIdentityDirty =
                        IF isIdentity THEN FALSE ELSE isIdentityDirty,
                     !._isIdentity3x2Dirty =
                        IF isIdentity \/ isIdentity3x2 THEN FALSE
                        ELSE isIdentity3x2Dirty]],
        w.seed + 1)

_updateIdentityStatus(w, self, isIdentity, isIdentityDirty, isIdentity3x2, isIdentity3x2Dirty) ==
  World([w.mats EXCEPT ![self] =
           [@ EXCEPT !.updateFlag = w.seed,
                     !.isIdentity = isIdentity,
                     !.isIdentity3x2 = isIdentity \/ isIdentity3x2,
                     !._isIdentityDirty =
                        IF isIdentity THEN FALSE ELSE isIdentityDirty,
                     !._isIdentity3x2Dirty =
                        IF isIdentity \/ isIdentity3x2 THEN FALSE
                        ELSE isIdentity3x2Dirty]],
        w.seed + 1)

\* _updateIdentityStatus(self, isIdentity) with the defaults of its signature
_updateIdentityStatus1(w, self, isIdentity) ==
  _updateIdentityStatus(w, self, isIdentity, FALSE, FALSE, TRUE)

\* result._m[index] = value
setElement(w, self, index, value) ==
  World([w.mats EXCEPT ![self]._m[index] = value], w.seed)

\* the sixteen assignments m[0] = .., m[1] = .., ... from values computed before
setElements(w, self, values) ==
  World([w.mats EXCEPT ![self]._m = values], w.seed)

create(w) ==
  LET newMatrix == [updateFlag |-> 0,
                    isIdentity |-> FALSE,
                    isIdentity3x2 |-> TRUE,
                    _isIdentityDirty |-> TRUE,
                    _isIdentity3x2Dirty |-> TRUE,
                    _m |-> ZeroValues]
      w1 == World(Append(w.mats, newMatrix), w.seed)
  IN  _updateIdentityStatus1(w1, Len(w1.mats), FALSE)

\* the index of the matrix the last create() returned
Last(w) == Len(w.mats)

\* the temporaries of a call are unreachable once it returns
dropTemporaries(w, n) == World(SubSeq(w.mats, 1, n), w.seed)

fromValuesToRef(w, values, result) ==
  _markAsUpdated(setElements(w, result, values), result)

fromArrayToRef(w, array, offset, result) ==
  _markAsUpdated(
    setElements(w, result, [index \in 0..15 |-> array[index + offset]]),
    result)

fromValues(w, values) ==
  LET w1 == create(w)
  IN  _markAsUpdated(setElements(w1, Last(w1), values), Last(w1))

Identity(w) ==
  LET w1 == fromValues(w, IdentityValues)
  IN  _updateIdentityStatus1(w1, Last(w1), TRUE)

IdentityToRef_flagNotSet(w, result) ==
  _updateIdentityStatus1(fromValuesToRef(w, IdentityValues, result), result, FALSE)

IdentityToRef(w, result) ==
  _updateIdentityStatus1(fromValuesToRef(w, IdentityValues, result), result, TRUE)

Zero(w) ==
  LET w1 == fromValues(w, ZeroValues)
  IN  _updateIdentityStatus1(w1, Last(w1), FALSE)

copyToArray(self) == [index \in 0..15 |-> self._m[index]]

copy(w, from, dest) ==
  LET f == w.mats[from]
  IN  _updateIdentityStatus(setElements(w, dest, copyToArray(f)), dest,
        f.isIdentity, f._isIdentityDirty, f.isIdentity3x2, f._isIdentity3x2Dirty)

clone(w, self) ==
  LET w1 == create(w)
  IN  copy(w1, self, Last(w1))

reset(w, self) ==
  _updateIdentityStatus1(fromValuesToRef(w, ZeroValues, self), self, FALSE)

scalingToRef(w, x, y, z, result) ==
  _updateIdentityStatus1(
    fromValuesToRef(w,
      M16(<<x, R(0), R(0), R(0),  R(0), y, R(0), R(0),
            R(0), R(0), z, R(0),  R(0), R(0), R(0), R(1)>>), result),
    result, x = R(1) /\ y = R(1) /\ z = R(1))

translationToRef(w, x, y, z, result) ==
  _updateIdentityStatus1(
    fromValuesToRef(w,
      M16(<<R(1), R(0), R(0), R(0),  R(0), R(1), R(0), R(0),
            R(0), R(0), R(1), R(0),  x, y, z, R(1)>>), result),
    result, x = R(0) /\ y = R(0) /\ z = R(0))

\* the pairs <<i, j>> of the assignments rm[i] = mm[j], in the order of the source
transposeAssignments ==
  << <<0, 0>>, <<1, 4>>, <<2, 8>>, <<3, 12>>,
     <<4, 1>>, <<5, 5>>, <<6, 9>>, <<7, 13>>,
     <<8, 2>>, <<9, 6>>, <<10, 10>>, <<11, 14>>,
     <<12, 3>>, <<13, 7>>, <<14, 11>>, <<15, 15>> >>

\* the first k assignments rm[i] = mm[j], one after the other: result and matrix
\* may be the same object, and then a later read sees an earlier write
RECURSIVE assignInOrder(_, _, _, _, _)
assignInOrder(w, result, matrix, pairs, k) ==
  IF k = 0 THEN w
  ELSE LET w1 == assignInOrder(w, result, matrix, pairs, k - 1)
       IN  setElement(w1, result, pairs[k][1], w1.mats[matrix]._m[pairs[k][2]])

transposeToRef(w, matrix, result) ==
  LET w1 == assignInOrder(w, result, matrix, transposeAssignments, 16)
  IN  _updateIdentityStatus(w1, result, w1.mats[matrix].isIdentity,
                            w1.mats[matrix]._isIdentityDirty, FALSE, TRUE)

transpose(w, matrix) ==
  LET w1 == create(w)
  IN  transposeToRef(w1, matrix, Last(w1))

isIdentityUpdate(w, self) ==
  LET m == w.mats[self]._m
  IN  IF w.mats[self]._isIdentityDirty
      THEN World([w.mats EXCEPT ![self] =
                    [@ EXCEPT !._isIdentityDirty = FALSE,
                              !.isIdentity =
                                 /\ m[0] = R(1) /\ m[1] = R(0) /\ m[2] = R(0) /\ m[3] = R(0)
                                 /\ m[4] = R(0) /\ m[5] = R(1) /\ m[6] = R(0) /\ m[7] = R(0)
                                 /\ m[8] = R(0) /\ m[9] = R(0) /\ m[10] = R(1) /\ m[11] = R(0)
                                 /\ m[12] = R(0) /\ m[13] = R(0) /\ m[14] = R(0) /\ m[15] = R(1)]],
                 w.seed)
      ELSE w

\* the value isIdentityAs3x2Update computes from the elements when the cache is dirty
isIdentityAs3x2Value(m) ==
  IF m[0] # R(1) \/ m[5] # R(1) \/ m[15] # R(1) THEN FALSE
  ELSE IF \/ m[1] # R(0) \/ m[2] # R(0) \/ m[3] # R(0) \/ m[4] # R(0)
          \/ m[6] # R(0) \/ m[7] # R(0) \/ m[8] # R(0) \/ m[9] # R(0)
          \/ m[10] # R(0) \/ m[11] # R(0) \/ m[12] # R(0) \/ m[13] # R(0)
          \/ m[14] # R(0)
       THEN FALSE
       ELSE TRUE

isIdentityAs3x2Update(w, self) ==
  IF w.mats[self]._isIdentity3x2Dirty
  THEN World([w.mats EXCEPT ![self] =
                [@ EXCEPT !._isIdentity3x2Dirty = FALSE,
                          !.isIdentity3x2 = isIdentityAs3x2Value(w.mats[self]._m)]],
             w.seed)
  ELSE w

addToRef(w, self, other, result) ==
  _markAsUpdated(
    setElements(w, result,
      [index \in 0..15 |-> w.mats[self]._m[index] (+) w.mats[other]._m[index]]),
    result)

addToSelf(w, self, other) ==
  _markAsUpdated(
    setElements(w, self,
      [index \in 0..15 |-> w.mats[self]._m[index] (+) w.mats[other]._m[index]]),
    self)

addAtIndex(w, self, index, value) ==
  _markAsUpdated(setElement(w, self, index, w.mats[self]._m[index] (+) value), self)

multiplyAtIndex(w, self, index, value) ==
  _markAsUpdated(setElement(w, self, index, w.mats[self]._m[index] (.) value), self)

setTranslationFromFloats(w, self, x, y, z) ==
  _markAsUpdated(
    setElement(setElement(setElement(w, self, 12, x), self, 13, y), self, 14, z),
    self)

setTranslation(w, self, vector3) ==
  setTranslationFromFloats(w, self, vector3.x, vector3.y, vector3.z)

setRowFromFloats(w, self, index, x, y, z, t) ==
  IF index < 0 \/ index > 3 THEN w
  ELSE LET i == index * 4
       IN  _markAsUpdated(
             setElement(setElement(setElement(setElement(w,
               self, i + 0, x), self, i + 1, y), self, i + 2, z), self, i + 3, t),
             self)

lerpToRef(w, startValue, endValue, gradient, result) ==
  _markAsUpdated(
    setElements(w, result,
      [index \in 0..15 |->
         w.mats[startValue]._m[index] (.) (R(1) (-) gradient)
           (+) w.mats[endValue]._m[index] (.) gradient]),
    result)

scaleToRef(w, self, scale, result) ==
  _markAsUpdated(
    setElements(w, result, [index \in 0..15 |-> w.mats[self]._m[index] (.) scale]),
    result)

removeRotationAndScaling(w, self) ==
  LET m == w.mats[self]._m
      w1 == fromValuesToRef(w,
              M16(<<R(1), R(0), R(0), R(0),  R(0), R(1), R(0), R(0),
                    R(0), R(0), R(1), R(0),  m[12], m[13], m[14], m[15]>>), self)
      m1 == w1.mats[self]._m
  IN  _updateIdentityStatus1(w1, self,
        m1[12] = R(0) /\ m1[13] = R(0) /\ m1[14] = R(0) /\ m1[15] = R(1))

toggleModelMatrixHandInPlace(w, self) ==
  LET m == w.mats[self]._m
  IN  _markAsUpdated(
        setElements(w, self,
          [m EXCEPT ![2] = @ (.) R(-1), ![6] = @ (.) R(-1), ![8] = @ (.) R(-1),
                    ![9] = @ (.) R(-1), ![14] = @ (.) R(-1)]),
        self)

toggleProjectionMatrixHandInPlace(w, self) ==
  LET m == w.mats[self]._m
  IN  _markAsUpdated(
        setElements(w, self,
          [m EXCEPT ![8] = @ (.) R(-1), ![9] = @ (.) R(-1),
                    ![10] = @ (.) R(-1), ![11] = @ (.) R(-1)]),
        self)

orthoOffCenterLHToRef(w, left, right, bottom, top, znear, zfar, result) ==
  LET n == znear
      f == zfar
      a == R(2) (/) (right (-) left)
      b == R(2) (/) (top (-) bottom)
      c == R(2) (/) (f (-) n)
      d == RNeg(f (+) n) (/) (f (-) n)
      i0 == (left (+) right) (/) (left (-) right)
      i1 == (top (+) bottom) (/) (bottom (-) top)
      w1 == fromValuesToRef(w,
              M16(<<a, R(0), R(0), R(0),  R(0), b, R(0), R(0),
                    R(0), R(0), c, R(0),  i0, i1, d, R(1)>>), result)
  IN  _markAsUpdated(w1, result)

orthoOffCenterRHToRef(w, left, right, bottom, top, znear, zfar, result) ==
  LET w1 == orthoOffCenterLHToRef(w, left, right, bottom, top, znear, zfar, result)
  IN  setElement(w1, result, 10, w1.mats[result]._m[10] (.) R(-1))

multiplyToArray(self, other) ==
  LET m == self._m
      otherM == other._m
      tm0 == m[0]    tm1 == m[1]    tm2 == m[2]    tm3 == m[3]
      tm4 == m[4]    tm5 == m[5]    tm6 == m[6]    tm7 == m[7]
      tm8 == m[8]    tm9 == m[9]    tm10 == m[10]  tm11 == m[11]
      tm12 == m[12]  tm13 == m[13]  tm14 == m[14]  tm15 == m[15]
      om0 == otherM[0]    om1 == otherM[1]    om2 == otherM[2]    om3 == otherM[3]
      om4 == otherM[4]    om5 == otherM[5]    om6 == otherM[6]    om7 == otherM[7]
      om8 == otherM[8]    om9 == otherM[9]    om10 == otherM[10]  om11 == otherM[11]
      om12 == otherM[12]  om13 == otherM[13]  om14 == otherM[14]  om15 == otherM[15]
  IN  M16(<<
        tm0 (.) om0 (+) tm1 (.) om4 (+) tm2 (.) om8 (+) tm3 (.) om12,
        tm0 (.) om1 (+) tm1 (.) om5 (+) tm2 (.) om9 (+) tm3 (.) om13,
        tm0 (.) om2 (+) tm1 (.) om6 (+) tm2 (.) om10 (+) tm3 (.) om14,
        tm0 (.) om3 (+) tm1 (.) om7 (+) tm2 (.) om11 (+) tm3 (.) om15,

        tm4 (.) om0 (+) tm5 (.) om4 (+) tm6 (.) om8 (+) tm7 (.) om12,
        tm4 (.) om1 (+) tm5 (.) om5 (+) tm6 (.) om9 (+) tm7 (.) om13,
        tm4 (.) om2 (+) tm5 (.) om6 (+) tm6 (.) om10 (+) tm7 (.) om14,
        tm4 (.) om3 (+) tm5 (.) om7 (+) tm6 (.) om11 (+) tm7 (.) om15,

        tm8 (.) om0 (+) tm9 (.) om4 (+) tm10 (.) om8 (+) tm11 (.) om12,
        tm8 (.) om1 (+) tm9 (.) om5 (+) tm10 (.) om9 (+) tm11 (.) om13,
        tm8 (.) om2 (+) tm9 (.) om6 (+) tm10 (.) om10 (+) tm11 (.) om14,
        tm8 (.) om3 (+) tm9 (.) om7 (+) tm10 (.) om11 (+) tm11 (.) om15,

        tm12 (.) om0 (+) tm13 (.) om4 (+) tm14 (.) om8 (+) tm15 (.) om12,
        tm12 (.) om1 (+) tm13 (.) om5 (+) tm14 (.) om9 (+) tm15 (.) om13,
        tm12 (.) om2 (+) tm13 (.) om6 (+) tm14 (.) om10 (+) tm15 (.) om14,
        tm12 (.) om3 (+) tm13 (.) om7 (+) tm14 (.) om11 (+) tm15 (.) om15 >>)

multiplyToRef_copiesSelf(w, self, other, result) ==
  IF w.mats[self].isIdentity THEN copy(w, self, result)
  ELSE IF w.mats[other].isIdentity THEN copy(w, other, result)
  ELSE _markAsUpdated(
         setElements(w, result, multiplyToArray(w.mats[self], w.mats[other])),
         result)

multiplyToRef(w, self, other, result) ==
  IF w.mats[self].isIdentity THEN copy(w, other, result)
  ELSE IF w.mats[other].isIdentity THEN copy(w, self, result)
  ELSE _markAsUpdated(
         setElements(w, result, multiplyToArray(w.mats[self], w.mats[other])),
         result)

multiply(w, self, other) ==
  LET w1 == create(w)
  IN  multiplyToRef(w1, self, other, Last(w1))

\* the cofactors of the first row and the determinant they give, as both
\* determinant and invertToRef compute them
firstRowCofactors(m) ==
  LET m00 == m[0]   m01 == m[1]   m02 == m[2]   m03 == m[3]
      m10 == m[4]   m11 == m[5]   m12 == m[6]   m13 == m[7]
      m20 == m[8]   m21 == m[9]   m22 == m[10]  m23 == m[11]
      m30 == m[12]  m31 == m[13]  m32 == m[14]  m33 == m[15]
      minors == [det_22_33 |-> m22 (.) m33 (-) m32 (.) m23,
                 det_21_33 |-> m21 (.) m33 (-) m31 (.) m23,
                 det_21_32 |-> m21 (.) m32 (-) m31 (.) m22,
                 det_20_33 |-> m20 (.) m33 (-) m30 (.) m23,
                 det_20_32 |-> m20 (.) m32 (-) m22 (.) m30,
                 det_20_31 |-> m20 (.) m31 (-) m30 (.) m21]
      cofactors(d) ==
        [cofact_00 |-> (m11 (.) d.det_22_33 (-) m12 (.) d.det_21_33) (+) m13 (.) d.det_21_32,
         cofact_01 |-> RNeg((m10 (.) d.det_22_33 (-) m12 (.) d.det_20_33)
                              (+) m13 (.) d.det_20_32),
         cofact_02 |-> (m10 (.) d.det_21_33 (-) m11 (.) d.det_20_33) (+) m13 (.) d.det_20_31,
         cofact_03 |-> RNeg((m10 (.) d.det_21_32 (-) m11 (.) d.det_20_32)
                              (+) m12 (.) d.det_20_31)]
      together(d, c) ==
        [det_22_33 |-> d.det_22_33, det_21_33 |-> d.det_21_33, det_21_32 |-> d.det_21_32,
         det_20_33 |-> d.det_20_33, det_20_32 |-> d.det_20_32, det_20_31 |-> d.det_20_31,
         cofact_00 |-> c.cofact_00, cofact_01 |-> c.cofact_01,
         cofact_02 |-> c.cofact_02, cofact_03 |-> c.cofact_03,
         det |-> m00 (.) c.cofact_00 (+) m01 (.) c.cofact_01
                 (+) m02 (.) c.cofact_02 (+) m03 (.) c.cofact_03]
  IN  together(minors, cofactors(minors))

determinant_earlyReturnsZero(self) ==
  IF self.isIdentity = TRUE THEN R(0)
  ELSE firstRowCofactors(self._m).det

determinant(self) ==
  IF self.isIdentity = TRUE THEN R(1)
  ELSE firstRowCofactors(self._m).det

\* the sixteen values invertToRef hands to fromValuesToRef when det # 0
invertValues(m, detInv) ==
  LET m00 == m[0]   m01 == m[1]   m02 == m[2]   m03 == m[3]
      m10 == m[4]   m11 == m[5]   m12 == m[6]   m13 == m[7]
      m20 == m[8]   m21 == m[9]   m22 == m[10]  m23 == m[11]
      m30 == m[12]  m31 == m[13]  m32 == m[14]  m33 == m[15]
      fromFirstRow(c) ==
        LET det_22_33 == c.det_22_33
            det_21_33 == c.det_21_33
            det_21_32 == c.det_21_32
            det_20_33 == c.det_20_33
            det_20_32 == c.det_20_32
            det_20_31 == c.det_20_31
            cofact_00 == c.cofact_00
            cofact_01 == c.cofact_01
            cofact_02 == c.cofact_02
            cofact_03 == c.cofact_03
            det_12_33 == m12 (.) m33 (-) m32 (.) m13
            det_11_33 == m11 (.) m33 (-) m31 (.) m13
            det_11_32 == m11 (.) m32 (-) m31 (.) m12
            det_10_33 == m10 (.) m33 (-) m30 (.) m13
            det_10_32 == m10 (.) m32 (-) m30 (.) m12
            det_10_31 == m10 (.) m31 (-) m30 (.) m11
            det_12_23 == m12 (.) m23 (-) m22 (.) m13
            det_11_23 == m11 (.) m23 (-) m21 (.) m13
            det_11_22 == m11 (.) m22 (-) m21 (.) m12
            det_10_23 == m10 (.) m23 (-) m20 (.) m13
            det_10_22 == m10 (.) m22 (-) m20 (.) m12
            det_10_21 == m10 (.) m21 (-) m20 (.) m11
            cofact_10 == RNeg((m01 (.) det_22_33 (-) m02 (.) det_21_33) (+) m03 (.) det_21_32)
            cofact_11 == (m00 (.) det_22_33 (-) m02 (.) det_20_33) (+) m03 (.) det_20_32
            cofact_12 == RNeg((m00 (.) det_21_33 (-) m01 (.) det_20_33) (+) m03 (.) det_20_31)
            cofact_13 == (m00 (.) det_21_32 (-) m01 (.) det_20_32) (+) m02 (.) det_20_31
            cofact_20 == (m01 (.) det_12_33 (-) m02 (.) det_11_33) (+) m03 (.) det_11_32
            cofact_21 == RNeg((m00 (.) det_12_33 (-) m02 (.) det_10_33) (+) m03 (.) det_10_32)
            cofact_22 == (m00 (.) det_11_33 (-) m01 (.) det_10_33) (+) m03 (.) det_10_31
            cofact_23 == RNeg((m00 (.) det_11_32 (-) m01 (.) det_10_32) (+) m02 (.) det_10_31)
            cofact_30 == RNeg((m01 (.) det_12_23 (-) m02 (.) det_11_23) (+) m03 (.) det_11_22)
            cofact_31 == (m00 (.) det_12_23 (-) m02 (.) det_10_23) (+) m03 (.) det_10_22
            cofact_32 == RNeg((m00 (.) det_11_23 (-) m01 (.) det_10_23) (+) m03 (.) det_10_21)
            cofact_33 == (m00 (.) det_11_22 (-) m01 (.) det_10_22) (+) m02 (.) det_10_21
        IN  M16(<< cofact_00 (.) detInv, cofact_10 (.) detInv,
                   cofact_20 (.) detInv, cofact_30 (.) detInv,
                   cofact_01 (.) detInv, cofact_11 (.) detInv,
                   cofact_21 (.) detInv, cofact_31 (.) detInv,
                   cofact_02 (.) detInv, cofact_12 (.) detInv,
                   cofact_22 (.) detInv, cofact_32 (.) detInv,
                   cofact_03 (.) detInv, cofact_13 (.) detInv,
                   cofact_23 (.) detInv, cofact_33 (.) detInv >>)
  IN  fromFirstRow(firstRowCofactors(m))

\* which path invertToRef takes on a source, and the 1 / det it computes on
\* the path that divides (None on the two paths that copy)
invertPath(source) ==
  IF source.isIdentity = TRUE THEN [copies |-> TRUE, detInv |-> None]
  ELSE IF firstRowCofactors(source._m).det = R(0)
       THEN [copies |-> TRUE, detInv |-> None]
       ELSE [copies |-> FALSE,
             detInv |-> Some(R(1) (/) firstRowCofactors(source._m).det)]

\* without the test for a zero determinant every product with 1 / 0 is not a number
invertToRef_noSingularCheck(w, source, result) ==
  IF w.mats[source].isIdentity = TRUE THEN copy(w, source, result)
  ELSE IF firstRowCofactors(w.mats[source]._m).det = R(0)
       THEN fromValuesToRef(w, [i \in 0..15 |-> NaN], result)
       ELSE fromValuesToRef(w,
              invertValues(w.mats[source]._m, invertPath(w.mats[source]).detInv[1]),
              result)

\* the cofactors written row by row, not transposed
invertToRef_cofactorRows(w, source, result) ==
  IF invertPath(w.mats[source]).copies THEN copy(w, source, result)
  ELSE LET v == invertValues(w.mats[source]._m, invertPath(w.mats[source]).detInv[1])
       IN  fromValuesToRef(w, [i \in 0..15 |-> v[(i % 4) * 4 + (i \div 4)]], result)

invertToRef(w, source, result) ==
  IF invertPath(w.mats[source]).copies THEN copy(w, source, result)
  ELSE fromValuesToRef(w,
         invertValues(w.mats[source]._m, invertPath(w.mats[source]).detInv[1]),
         result)

invert(w, source) ==
  LET w1 == create(w)
  IN  invertToRef(w1, source, Last(w1))

-----------------------------------------------------------------------------
(* Vector3 and Quaternion values, and the conversions Matrix uses *)

Vector3_create(x, y, z) == [x |-> x, y |-> y, z |-> z]

Vector3_Zero == Vector3_create(R(0), R(0), R(0))

Quaternion_create(x, y, z, t) == [x |-> x, y |-> y, z |-> z, w |-> t]

Quaternion_Identity == Quaternion_create(R(0), R(0), R(0), R(1))

Quaternion_dot(left, right) ==
  left.x (.) right.x (+) left.y (.) right.y (+) left.z (.) right.z
    (+) left.w (.) right.w

\* Vector3 and Quaternion objects passed to a function live in a sequence h
\* and are named by their index in it, so that two parameters of a call can
\* name the same object; a function that assigns fields of a parameter
\* yields the sequence after its assignments, made in the order of the source
Quaternion_multiplyToRef_signSlip(h, self, q1, result) ==
  LET wx(g) == [g EXCEPT ![result].x =
                  ((g[self].x (.) g[q1].w (+) g[self].y (.) g[q1].z)
                     (-) g[self].z (.) g[q1].y) (-) g[self].w (.) g[q1].x]
      wy(g) == [g EXCEPT ![result].y =
                  RNeg(g[self].x) (.) g[q1].z (+) g[self].y (.) g[q1].w
                    (+) g[self].z (.) g[q1].x (+) g[self].w (.) g[q1].y]
      wz(g) == [g EXCEPT ![result].z =
                  (g[self].x (.) g[q1].y (-) g[self].y (.) g[q1].x)
                    (+) g[self].z (.) g[q1].w (+) g[self].w (.) g[q1].z]
      ww(g) == [g EXCEPT ![result].w =
                  ((RNeg(g[self].x) (.) g[q1].x (-) g[self].y (.) g[q1].y)
                     (-) g[self].z (.) g[q1].z) (+) g[self].w (.) g[q1].w]
  IN  ww(wz(wy(wx(h))))

\* result.x, result.y, result.z and result.w are assigned one after the
\* other, each from the fields self and q1 hold at that moment
Quaternion_multiplyToRef(h, self, q1, result) ==
  LET wx(g) == [g EXCEPT ![result].x =
                  ((g[self].x (.) g[q1].w (+) g[self].y (.) g[q1].z)
                     (-) g[self].z (.) g[q1].y) (+) g[self].w (.) g[q1].x]
      wy(g) == [g EXCEPT ![result].y =
                  RNeg(g[self].x) (.) g[q1].z (+) g[self].y (.) g[q1].w
                    (+) g[self].z (.) g[q1].x (+) g[self].w (.) g[q1].y]
      wz(g) == [g EXCEPT ![result].z =
                  (g[self].x (.) g[q1].y (-) g[self].y (.) g[q1].x)
                    (+) g[self].z (.) g[q1].w (+) g[self].w (.) g[q1].z]
      ww(g) == [g EXCEPT ![result].w =
                  ((RNeg(g[self].x) (.) g[q1].x (-) g[self].y (.) g[q1].y)
                     (-) g[self].z (.) g[q1].z) (+) g[self].w (.) g[q1].w]
  IN  ww(wz(wy(wx(h))))

\* multiply allocates its result; the value returned
Quaternion_multiply(self, q1) ==
  Quaternion_multiplyToRef(
    <<self, q1, Quaternion_create(R(0), R(0), R(0), R(1))>>, 1, 2, 3)[3]

\* Math.sin(k * Math.acos(c)) for k = 0 and k = 1, in exact arithmetic:
\* sin(0) = 0 and sin(acos(c)) = sqrt(1 - c * c)
SinOfMultipleOfAcos(k, c) ==
  IF k = R(0) THEN R(0) ELSE Sqrt(R(1) (-) c (.) c)

Quaternion_slerpToRef_sameSign(h, left, right, amount, result) ==
  LET d == Quaternion_dot(h[left], h[right])
      flag == RLt(d, R(0))
      num4 == IF flag THEN RNeg(d) ELSE d
      linear == RLt(Rat(999999, 1000000), num4)
      num6 == R(1) (/) SinOfMultipleOfAcos(R(1), num4)
      num3 == IF linear THEN R(1) (-) amount
              ELSE SinOfMultipleOfAcos(R(1) (-) amount, num4) (.) num6
      num2 == IF linear THEN amount
              ELSE SinOfMultipleOfAcos(amount, num4) (.) num6
      wx(g, n3, n2) == [g EXCEPT ![result].x = n3 (.) g[left].x (+) n2 (.) g[right].x]
      wy(g, n3, n2) == [g EXCEPT ![result].y = n3 (.) g[left].y (+) n2 (.) g[right].y]
      wz(g, n3, n2) == [g EXCEPT ![result].z = n3 (.) g[left].z (+) n2 (.) g[right].z]
      ww(g, n3, n2) == [g EXCEPT ![result].w = n3 (.) g[left].w (+) n2 (.) g[right].w]
      assign(n3, n2) == ww(wz(wy(wx(h, n3, n2), n3, n2), n3, n2), n3, n2)
  IN  assign(num3, num2)

\* num4 is the dot product, negated (flag) when negative; above 0.999999 the
\* weights are linear, otherwise those of the arc of angle acos(num4); the
\* weight of right is negated when flag is set
Quaternion_slerpToRef(h, left, right, amount, result) ==
  LET d == Quaternion_dot(h[left], h[right])
      flag == RLt(d, R(0))
      num4 == IF flag THEN RNeg(d) ELSE d
      linear == RLt(Rat(999999, 1000000), num4)
      num6 == R(1) (/) SinOfMultipleOfAcos(R(1), num4)
      num3 == IF linear THEN R(1) (-) amount
              ELSE SinOfMultipleOfAcos(R(1) (-) amount, num4) (.) num6
      num2 == IF linear THEN (IF flag THEN RNeg(amount) ELSE amount)
              ELSE IF flag THEN RNeg(SinOfMultipleOfAcos(amount, num4)) (.) num6
              ELSE SinOfMultipleOfAcos(amount, num4) (.) num6
      wx(g, n3, n2) == [g EXCEPT ![result].x = n3 (.) g[left].x (+) n2 (.) g[right].x]
      wy(g, n3, n2) == [g EXCEPT ![result].y = n3 (.) g[left].y (+) n2 (.) g[right].y]
      wz(g, n3, n2) == [g EXCEPT ![result].z = n3 (.) g[left].z (+) n2 (.) g[right].z]
      ww(g, n3, n2) == [g EXCEPT ![result].w = n3 (.) g[left].w (+) n2 (.) g[right].w]
      assign(n3, n2) == ww(wz(wy(wx(h, n3, n2), n3, n2), n3, n2), n3, n2)
  IN  assign(num3, num2)

\* slerp allocates its result with Quaternion.Identity(); the value returned
Quaternion_slerp(left, right, amount) ==
  Quaternion_slerpToRef(<<left, right, Quaternion_Identity>>, 1, 2, amount, 3)[3]

Vector3_crossToRef_signSlip(h, left, right, result) ==
  LET wx(g) == [g EXCEPT ![result].x =
                  g[left].y (.) g[right].z (-) g[left].z (.) g[right].y]
      wy(g) == [g EXCEPT ![result].y =
                  g[left].z (.) g[right].x (-) g[left].x (.) g[right].z]
      wz(g) == [g EXCEPT ![result].z =
                  g[left].x (.) g[right].y (+) g[left].y (.) g[right].x]
  IN  wz(wy(wx(h)))

\* the same three assignments in src/src/Vector3.ts and in the later version
\* of the namespace (src/unnamed/part_004)
Vector3_crossToRef(h, left, right, result) ==
  LET wx(g) == [g EXCEPT ![result].x =
                  g[left].y (.) g[right].z (-) g[left].z (.) g[right].y]
      wy(g) == [g EXCEPT ![result].y =
                  g[left].z (.) g[right].x (-) g[left].x (.) g[right].z]
      wz(g) == [g EXCEPT ![result].z =
                  g[left].x (.) g[right].y (-) g[left].y (.) g[right].x]
  IN  wz(wy(wx(h)))

\* cross allocates its result with Vector3.Zero(); the value returned
Vector3_cross(left, right) ==
  Vector3_crossToRef(<<left, right, Vector3_Zero>>, 1, 2, 3)[3]

\* src/unnamed/part_004
Vector3_addToRef(h, vectorA, vectorB, result) ==
  LET wx(g) == [g EXCEPT ![result].x = g[vectorA].x (+) g[vectorB].x]
      wy(g) == [g EXCEPT ![result].y = g[vectorA].y (+) g[vectorB].y]
      wz(g) == [g EXCEPT ![result].z = g[vectorA].z (+) g[vectorB].z]
  IN  wz(wy(wx(h)))

Vector3_subtractToRef(h, minuend, subtrahend, result) ==
  LET wx(g) == [g EXCEPT ![result].x = g[minuend].x (-) g[subtrahend].x]
      wy(g) == [g EXCEPT ![result].y = g[minuend].y (-) g[subtrahend].y]
      wz(g) == [g EXCEPT ![result].z = g[minuend].z (-) g[subtrahend].z]
  IN  wz(wy(wx(h)))

\* src/unnamed/part_004
Vector3_multiplyToRef(h, vector1, vector2, result) ==
  LET wx(g) == [g EXCEPT ![result].x = g[vector1].x (.) g[vector2].x]
      wy(g) == [g EXCEPT ![result].y = g[vector1].y (.) g[vector2].y]
      wz(g) == [g EXCEPT ![result].z = g[vector1].z (.) g[vector2].z]
  IN  wz(wy(wx(h)))

\* src/unnamed/part_004
Vector3_divideToRef(h, vector1, vector2, result) ==
  LET wx(g) == [g EXCEPT ![result].x = g[vector1].x (/) g[vector2].x]
      wy(g) == [g EXCEPT ![result].y = g[vector1].y (/) g[vector2].y]
      wz(g) == [g EXCEPT ![result].z = g[vector1].z (/) g[vector2].z]
  IN  wz(wy(wx(h)))

Vector3_lerpToRef(h, start, end, amount, result) ==
  LET wx(g) == [g EXCEPT ![result].x =
                  g[start].x (+) (g[end].x (-) g[start].x) (.) amount]
      wy(g) == [g EXCEPT ![result].y =
                  g[start].y (+) (g[end].y (-) g[start].y) (.) amount]
      wz(g) == [g EXCEPT ![result].z =
                  g[start].z (+) (g[end].z (-) g[start].z) (.) amount]
  IN  wz(wy(wx(h)))

\* src/src/Vector3.ts: all three assignments are to dest.x
Vector3_copy(h, source, dest) ==
  LET w1(g) == [g EXCEPT ![dest].x = g[source].x]
  IN  w1(w1(w1(h)))

\* src/unnamed/part_004
Vector3_copyFrom(h, source, dest) ==
  LET wx(g) == [g EXCEPT ![dest].x = g[source].x]
      wy(g) == [g EXCEPT ![dest].y = g[source].y]
      wz(g) == [g EXCEPT ![dest].z = g[source].z]
  IN  wz(wy(wx(h)))

Vector3_dot(left, right) ==
  left.x (.) right.x (+) left.y (.) right.y (+) left.z (.) right.z

Vector3_lengthSquared(vector) ==
  vector.x (.) vector.x (+) vector.y (.) vector.y (+) vector.z (.) vector.z

Vector3_length(vector) ==
  Sqrt(vector.x (.) vector.x (+) vector.y (.) vector.y (+) vector.z (.) vector.z)

Vector3_scaleToRef(h, vector, scale, result) ==
  LET wx(g) == [g EXCEPT ![result].x = g[vector].x (.) scale]
      wy(g) == [g EXCEPT ![result].y = g[vector].y (.) scale]
      wz(g) == [g EXCEPT ![result].z = g[vector].z (.) scale]
  IN  wz(wy(wx(h)))

Vector3_scale(vector, scale) ==
  Vector3_create(vector.x (.) scale, vector.y (.) scale, vector.z (.) scale)

\* src/src/Vector3.ts: past the early return, "result = scale(vector, 1.0 /
\* len)" makes the parameter name a new object (appended to h here), and
\* scaleToRef then assigns the fields of that object; the object the caller
\* passed is at its index, as it was
Vector3_normalizeFromLengthToRef(h, vector, len, result) ==
  IF len = R(0) \/ len = R(1)
    THEN Vector3_copy(h, vector, result)
    ELSE Vector3_scaleToRef(Append(h, Vector3_scale(h[vector], R(1) (/) len)),
                            vector, R(1) (/) len, Len(h) + 1)

\* src/unnamed/part_004
Vector3_normalizeFromLengthToRef_part004(h, vector, len, result) ==
  IF len = R(0) \/ len = R(1)
    THEN Vector3_copyFrom(h, vector, result)
    ELSE Vector3_scaleToRef(h, vector, R(1) (/) len, result)

\* src/src/Vector3.ts; the value returned
Vector3_normalizeFromLength(vector, len) ==
  Vector3_normalizeFromLengthToRef(
    <<vector, Vector3_create(R(0), R(0), R(0))>>, 1, len, 2)[2]

\* src/unnamed/part_004; the value returned
Vector3_normalizeFromLength_part004(vector, len) ==
  Vector3_normalizeFromLengthToRef_part004(
    <<vector, Vector3_create(R(0), R(0), R(0))>>, 1, len, 2)[2]

Vector3_normalize(vector) ==
  Vector3_normalizeFromLength(vector, Vector3_length(vector))

Vector3_normalize_part004(vector) ==
  Vector3_normalizeFromLength_part004(vector, Vector3_length(vector))

Vector3_normalizeToRef(h, vector, result) ==
  Vector3_normalizeFromLengthToRef(h, vector, Vector3_length(h[vector]), result)

Vector3_normalizeToRef_part004(h, vector, result) ==
  Vector3_normalizeFromLengthToRef_part004(h, vector, Vector3_length(h[vector]), result)

rotateValues_signSlip(x, y, z, qx, qy, qz, qw) ==
  LET from(ix, iy, iz, iw) ==
        Vector3_create(
          ((ix (.) qw (+) iw (.) RNeg(qx)) (+) iy (.) RNeg(qz)) (+) iz (.) RNeg(qy),
          ((iy (.) qw (+) iw (.) RNeg(qy)) (+) iz (.) RNeg(qx)) (-) ix (.) RNeg(qz),
          ((iz (.) qw (+) iw (.) RNeg(qz)) (+) ix (.) RNeg(qy)) (-) iy (.) RNeg(qx))
  IN  from((qw (.) x (+) qy (.) z) (-) qz (.) y,
           (qw (.) y (+) qz (.) x) (-) qx (.) z,
           (qw (.) z (+) qx (.) y) (-) qy (.) x,
           ((RNeg(qx) (.) x) (-) qy (.) y) (-) qz (.) z)

\* the three components rotate (src/src/Vector3.ts) returns and rotateToRef
\* (src/unnamed/part_004) assigns, from x, y, z of the vector and qx, qy, qz,
\* qw of the quaternion read beforehand
rotateValues(x, y, z, qx, qy, qz, qw) ==
  LET from(ix, iy, iz, iw) ==
        Vector3_create(
          ((ix (.) qw (+) iw (.) RNeg(qx)) (+) iy (.) RNeg(qz)) (-) iz (.) RNeg(qy),
          ((iy (.) qw (+) iw (.) RNeg(qy)) (+) iz (.) RNeg(qx)) (-) ix (.) RNeg(qz),
          ((iz (.) qw (+) iw (.) RNeg(qz)) (+) ix (.) RNeg(qy)) (-) iy (.) RNeg(qx))
  IN  from((qw (.) x (+) qy (.) z) (-) qz (.) y,
           (qw (.) y (+) qz (.) x) (-) qx (.) z,
           (qw (.) z (+) qx (.) y) (-) qy (.) x,
           ((RNeg(qx) (.) x) (-) qy (.) y) (-) qz (.) z)

\* src/src/Vector3.ts
Vector3_rotate(vector, q) ==
  rotateValues(vector.x, vector.y, vector.z, q.x, q.y, q.z, q.w)

\* src/unnamed/part_004
Vector3_rotateToRef(h, vector, q, result) ==
  LET assign(v) == [h EXCEPT ![result] = v]
  IN  assign(rotateValues(h[vector].x, h[vector].y, h[vector].z, q.x, q.y, q.z, q.w))

\* src/unnamed/part_004: rotate allocates its result with create()
Vector3_rotate_part004(vector, q) ==
  Vector3_rotateToRef(<<vector, Vector3_create(R(0), R(0), R(0))>>, 1, q, 2)[2]

Quaternion_lengthSquared(q) ==
  q.x (.) q.x (+) q.y (.) q.y (+) q.z (.) q.z (+) q.w (.) q.w

Quaternion_length(q) == Sqrt(Quaternion_lengthSquared(q))

\* for q of length 0 the factor 1.0 / length(q) is infinite and every
\* component, 0 times it, is NaN
Quaternion_normalize(q) ==
  LET scaled(qLength) ==
        Quaternion_create(q.x (.) qLength, q.y (.) qLength, q.z (.) qLength,
                          q.w (.) qLength)
  IN  scaled(R(1) (/) Quaternion_length(q))

\* Quaternion.fromToRotation, given the two normalized vectors
fromToRotationOfNormalized(v0, v1, up) ==
  LET a == Vector3_cross(v0, v1)
      w == Sqrt(Vector3_lengthSquared(v0) (.) Vector3_lengthSquared(v1))
             (+) Vector3_dot(v0, v1)
      absW == <<Abs(w[1]), w[2]>>
  IN  IF RLt(Vector3_lengthSquared(a), Rat(1, 10000))
        THEN IF RLt(absW, Rat(1, 10000))
               THEN Quaternion_normalize(Quaternion_create(up.x, up.y, up.z, R(0)))
               ELSE Quaternion_Identity
        ELSE Quaternion_normalize(Quaternion_create(a.x, a.y, a.z, w))

\* with the Vector3 namespace of src/src/Vector3.ts
Quaternion_fromToRotation(from, to, up) ==
  fromToRotationOfNormalized(Vector3_normalize(from), Vector3_normalize(to), up)

\* with the Vector3 namespace of src/unnamed/part_004
Quaternion_fromToRotation_part004(from, to, up) ==
  fromToRotationOfNormalized(Vector3_normalize_part004(from),
                             Vector3_normalize_part004(to), up)

\* Math.sin and Math.cos of degress * DEG2RAD * 0.5, exact, for the whole
\* multiples of 180 degrees the model passes
SinOfHalfDegrees(degress) ==
  CASE degress = R(0) -> R(0)
    [] degress = R(180) -> R(1)
    [] degress = R(360) -> R(0)
    [] degress = R(-180) -> R(-1)

CosOfHalfDegrees(degress) ==
  CASE degress = R(0) -> R(1)
    [] degress = R(180) -> R(0)
    [] degress = R(360) -> R(-1)
    [] degress = R(-180) -> R(0)

Quaternion_angleAxis_noZeroAxisCheck(degress, axis) ==
  LET a2 == Vector3_scaleToRef(<<Vector3_normalize(axis)>>, 1,
                               SinOfHalfDegrees(degress), 1)[1]
  IN  Quaternion_normalize(
        Quaternion_create(a2.x, a2.y, a2.z, CosOfHalfDegrees(degress)))

\* a2 is the object Vector3.normalize (./Vector3, src/src/Vector3.ts)
\* returns, scaled in place
Quaternion_angleAxis(degress, axis) ==
  IF Vector3_lengthSquared(axis) = R(0)
    THEN Quaternion_Identity
    ELSE LET a2 == Vector3_scaleToRef(<<Vector3_normalize(axis)>>, 1,
                                      SinOfHalfDegrees(degress), 1)[1]
         IN  Quaternion_normalize(
               Quaternion_create(a2.x, a2.y, a2.z, CosOfHalfDegrees(degress)))

Plane_create(a, b, c, d) == [normal |-> Vector3_create(a, b, c), d |-> d]

\* result is a new plane create(0, 0, 0, 0): its normal is assigned the
\* scaled normal of the argument and its d, which is 0, is multiplied by
\* magnitude; the function returns its argument, which it never assigns
Plane_normalize(plane) ==
  LET norm == Sqrt(plane.normal.x (.) plane.normal.x
                     (+) plane.normal.y (.) plane.normal.y
                     (+) plane.normal.z (.) plane.normal.z)
      magnitude == IF norm # R(0) THEN R(1) (/) norm ELSE R(0)
      result == [normal |-> Vector3_create(plane.normal.x (.) magnitude,
                                           plane.normal.y (.) magnitude,
                                           plane.normal.z (.) magnitude),
                 d |-> R(0) (.) magnitude]
  IN  plane

reflectionToRef(w, _plane, result) ==
  LET values(plane, x, y, z, temp, temp2, temp3) ==
        M16(<<temp (.) x (+) R(1), temp2 (.) x, temp3 (.) x, R(0),
              temp (.) y, temp2 (.) y (+) R(1), temp3 (.) y, R(0),
              temp (.) z, temp2 (.) z, temp3 (.) z (+) R(1), R(0),
              temp (.) plane.d, temp2 (.) plane.d, temp3 (.) plane.d, R(1)>>)
      from(plane) ==
        values(plane, plane.normal.x, plane.normal.y, plane.normal.z,
               R(-2) (.) plane.normal.x, R(-2) (.) plane.normal.y,
               R(-2) (.) plane.normal.z)
  IN  fromValuesToRef(w, from(Plane_normalize(_plane)), result)

reflection(w, plane) ==
  LET w1 == create(w)
  IN  reflectionToRef(w1, plane, Last(w1))

\* Math.acos(Math.min(Math.abs(dotVal), 1)) * 2 * RAD2DEG is 0 exactly when
\* the clamped |dot| is 1
Quaternion_angleIsZero(quat1, quat2) ==
  LET dotVal == Quaternion_dot(quat1, quat2)
      absDot == IF RLt(dotVal, R(0)) THEN RNeg(dotVal) ELSE dotVal
  IN  RLe(R(1), absDot)

\* the value of result after the call; every field of result is overwritten
fromRotationMatrixToRef(matrix, result) ==
  LET data == matrix._m
      m11 == data[0]  m12 == data[4]  m13 == data[8]
      m21 == data[1]  m22 == data[5]  m23 == data[9]
      m31 == data[2]  m32 == data[6]  m33 == data[10]
      trace == m11 (+) m22 (+) m33
  IN  IF RLt(R(0), trace)
      THEN LET s == Rat(1, 2) (/) Sqrt(trace (+) R(1))
           IN  [w |-> Rat(1, 4) (/) s,
                x |-> (m32 (-) m23) (.) s,
                y |-> (m13 (-) m31) (.) s,
                z |-> (m21 (-) m12) (.) s]
      ELSE IF RLt(m22, m11) /\ RLt(m33, m11)
      THEN LET s == R(2) (.) Sqrt(((R(1) (+) m11) (-) m22) (-) m33)
           IN  [w |-> (m32 (-) m23) (/) s,
                x |-> Rat(1, 4) (.) s,
                y |-> (m12 (+) m21) (/) s,
                z |-> (m13 (+) m31) (/) s]
      ELSE IF RLt(m33, m22)
      THEN LET s == R(2) (.) Sqrt(((R(1) (+) m22) (-) m11) (-) m33)
           IN  [w |-> (m13 (-) m31) (/) s,
                x |-> (m12 (+) m21) (/) s,
                y |-> Rat(1, 4) (.) s,
                z |-> (m23 (+) m32) (/) s]
      ELSE LET s == R(2) (.) Sqrt(((R(1) (+) m33) (-) m11) (-) m22)
           IN  [w |-> (m21 (-) m12) (/) s,
                x |-> (m13 (+) m31) (/) s,
                y |-> (m23 (+) m32) (/) s,
                z |-> Rat(1, 4) (.) s]

fromQuaternionToRef(w, quat, result) ==
  LET xx == quat.x (.) quat.x
      yy == quat.y (.) quat.y
      zz == quat.z (.) quat.z
      xy == quat.x (.) quat.y
      zw == quat.z (.) quat.w
      zx == quat.z (.) quat.x
      yw == quat.y (.) quat.w
      yz == quat.y (.) quat.z
      xw == quat.x (.) quat.w
  IN  _markAsUpdated(
        setElements(w, result,
          M16(<< R(1) (-) R(2) (.) (yy (+) zz),
                 R(2) (.) (xy (+) zw),
                 R(2) (.) (zx (-) yw),
                 R(0),
                 R(2) (.) (xy (-) zw),
                 R(1) (-) R(2) (.) (zz (+) xx),
                 R(2) (.) (yz (+) xw),
                 R(0),
                 R(2) (.) (zx (+) yw),
                 R(2) (.) (yz (-) xw),
                 R(1) (-) R(2) (.) (yy (+) xx),
                 R(0),
                 R(0), R(0), R(0), R(1) >>)),
        result)

composeToRef_rotationOnTheLeft(w, scale, rotation, translation, result) ==
  LET n == Len(w.mats)
      w1 == create(create(create(w)))
      tmpMatrix == <<n + 1, n + 2, n + 3>>
      w2 == scalingToRef(w1, scale.x, scale.y, scale.z, tmpMatrix[2])
      w3 == fromQuaternionToRef(w2, rotation, tmpMatrix[1])
      w4 == multiplyToRef(w3, tmpMatrix[1], tmpMatrix[2], result)
  IN  dropTemporaries(setTranslation(w4, result, translation), n)

composeToRef(w, scale, rotation, translation, result) ==
  LET n == Len(w.mats)
      w1 == create(create(create(w)))
      tmpMatrix == <<n + 1, n + 2, n + 3>>
      w2 == scalingToRef(w1, scale.x, scale.y, scale.z, tmpMatrix[2])
      w3 == fromQuaternionToRef(w2, rotation, tmpMatrix[1])
      w4 == multiplyToRef(w3, tmpMatrix[2], tmpMatrix[1], result)
  IN  dropTemporaries(setTranslation(w4, result, translation), n)

compose(w, scale, rotation, translation) ==
  LET w1 == create(w)
  IN  composeToRef(w1, scale, rotation, translation, Last(w1))

\* the three row magnitudes decompose computes, before any sign change
rowMagnitudes(m) ==
  [x |-> Sqrt(m[0] (.) m[0] (+) m[1] (.) m[1] (+) m[2] (.) m[2]),
   y |-> Sqrt(m[4] (.) m[4] (+) m[5] (.) m[5] (+) m[6] (.) m[6]),
   z |-> Sqrt(m[8] (.) m[8] (+) m[9] (.) m[9] (+) m[10] (.) m[10])]

\* the matrix decompose hands to Quaternion.fromRotationMatrixToRef
decomposeRotationValues(m, usedScale) ==
  LET sx == R(1) (/) usedScale.x
      sy == R(1) (/) usedScale.y
      sz == R(1) (/) usedScale.z
  IN  M16(<< m[0] (.) sx, m[1] (.) sx, m[2] (.) sx, R(0),
             m[4] (.) sy, m[5] (.) sy, m[6] (.) sy, R(0),
             m[8] (.) sz, m[9] (.) sz, m[10] (.) sz, R(0),
             R(0), R(0), R(0), R(1) >>)

\* the identity quaternion written into the caller's object
decomposeDegenerate_writesRotation(w, scaleAfter, rotation, translation) ==
  [w |-> w, ret |-> FALSE, scale |-> scaleAfter,
   rotation |-> IF Given(rotation) THEN Some(Quaternion_create(R(0), R(0), R(0), R(1)))
                ELSE rotation,
   translation |-> translation]

\* the branch of decompose taken when a scale axis is zero:
\* "rotation = Quaternion.create(0, 0, 0, 1)" rebinds the parameter, return false
decomposeDegenerate(w, scaleAfter, rotation, translation) ==
  [w |-> w, ret |-> FALSE, scale |-> scaleAfter, rotation |-> rotation,
   translation |-> translation]

\* decompose(self, scale?, rotation?, translation?): what it returns, and the
\* objects the caller supplied as they are after the call.  The assignments
\* "translation = Vector3.create(..)", "scale = Vector3.create(..)" and
\* "rotation = Quaternion.create(..)" rebind the parameter and leave the
\* caller's object as it was; "usedScale.x = .." and fromRotationMatrixToRef
\* write into the caller's object.
decompose(w, self, scale, rotation, translation) ==
  LET me == w.mats[self]
      m == me._m
  IN  IF me.isIdentity
      THEN [w |-> w, ret |-> TRUE,
            scale |-> scale, rotation |-> rotation, translation |-> translation]
      ELSE
        LET mag == rowMagnitudes(m)
            usedScale == [x |-> mag.x,
                          y |-> IF RLe(determinant(me), R(0))
                                THEN mag.y (.) R(-1) ELSE mag.y,
                          z |-> mag.z]
            scaleAfter == IF Given(scale) THEN Some(usedScale) ELSE scale
        IN  IF usedScale.x = R(0) \/ usedScale.y = R(0) \/ usedScale.z = R(0)
            THEN decomposeDegenerate(w, scaleAfter, rotation, translation)
            ELSE IF Given(rotation)
            THEN LET w1 == create(w)
                     tmpMatrix == Last(w1)
                     w2 == fromValuesToRef(w1, decomposeRotationValues(m, usedScale),
                                           tmpMatrix)
                 IN  [w |-> dropTemporaries(w2, Len(w.mats)), ret |-> TRUE,
                      scale |-> scaleAfter,
                      rotation |-> Some(fromRotationMatrixToRef(w2.mats[tmpMatrix],
                                                                rotation[1])),
                      translation |-> translation]
            ELSE [w |-> w, ret |-> TRUE,
                  scale |-> scaleAfter, rotation |-> rotation,
                  translation |-> translation]

\* scale is a new Vector3.Zero() handed to decompose; when decompose returns
\* false "result = Identity()" builds a new matrix and makes the parameter
\* name it, the caller's matrix being left as it was; otherwise the rows of
\* the upper 3x3 block times 1 / scale.x, 1 / scale.y, 1 / scale.z (the
\* values of decomposeRotationValues) are written into the caller's matrix
\* lookAtLHToRef and lookAtRHToRef past their first statement, which differs:
\* h holds eye, target, up, xAxis, yAxis, zAxis at 1..6, zAxis being the
\* difference just written; normalizeToRef and normalizeFromLengthToRef are
\* those of src/unnamed/part_004 when laterVector3, of src/src/Vector3.ts
\* otherwise
lookAtFromZAxisToRef_noFallback(w, h, result, laterVector3) ==
  LET normalizeToRef(g, vector, to) ==
        IF laterVector3 THEN Vector3_normalizeToRef_part004(g, vector, to)
        ELSE Vector3_normalizeToRef(g, vector, to)
      normalizeFromLengthToRef(g, vector, len, to) ==
        IF laterVector3 THEN Vector3_normalizeFromLengthToRef_part004(g, vector, len, to)
        ELSE Vector3_normalizeFromLengthToRef(g, vector, len, to)
      xAxisOf(g, xSquareLength) ==
        IF xSquareLength = R(0)
          THEN g
          ELSE normalizeFromLengthToRef(g, 4, Sqrt(xSquareLength), 4)
      crossed(g) == xAxisOf(g, Vector3_lengthSquared(g[4]))
      values(g) ==
        M16(<< g[4].x, g[5].x, g[6].x, R(0),
               g[4].y, g[5].y, g[6].y, R(0),
               g[4].z, g[5].z, g[6].z, R(0),
               RNeg(Vector3_dot(g[4], g[1])), RNeg(Vector3_dot(g[5], g[1])),
               RNeg(Vector3_dot(g[6], g[1])), R(1) >>)
  IN  fromValuesToRef(w,
        values(normalizeToRef(
                 Vector3_crossToRef(
                   crossed(Vector3_crossToRef(normalizeToRef(h, 6, 6), 3, 6, 4)),
                   6, 4, 5),
                 5, 5)),
        result)

lookAtFromZAxisToRef(w, h, result, laterVector3) ==
  LET normalizeToRef(g, vector, to) ==
        IF laterVector3 THEN Vector3_normalizeToRef_part004(g, vector, to)
        ELSE Vector3_normalizeToRef(g, vector, to)
      normalizeFromLengthToRef(g, vector, len, to) ==
        IF laterVector3 THEN Vector3_normalizeFromLengthToRef_part004(g, vector, len, to)
        ELSE Vector3_normalizeFromLengthToRef(g, vector, len, to)
      xAxisOf(g, xSquareLength) ==
        IF xSquareLength = R(0)
          THEN [g EXCEPT ![4].x = R(1)]
          ELSE normalizeFromLengthToRef(g, 4, Sqrt(xSquareLength), 4)
      crossed(g) == xAxisOf(g, Vector3_lengthSquared(g[4]))
      values(g) ==
        M16(<< g[4].x, g[5].x, g[6].x, R(0),
               g[4].y, g[5].y, g[6].y, R(0),
               g[4].z, g[5].z, g[6].z, R(0),
               RNeg(Vector3_dot(g[4], g[1])), RNeg(Vector3_dot(g[5], g[1])),
               RNeg(Vector3_dot(g[6], g[1])), R(1) >>)
  IN  fromValuesToRef(w,
        values(normalizeToRef(
                 Vector3_crossToRef(
                   crossed(Vector3_crossToRef(normalizeToRef(h, 6, 6), 3, 6, 4)),
                   6, 4, 5),
                 5, 5)),
        result)

\* zAxis = target - eye; with the Vector3 namespace of src/src/Vector3.ts
lookAtLHToRef(w, eye, target, up, result) ==
  lookAtFromZAxisToRef(w,
    Vector3_subtractToRef(<<eye, target, up, Vector3_Zero, Vector3_Zero, Vector3_Zero>>, 2, 1, 6),
    result, FALSE)

\* zAxis = eye - target
lookAtRHToRef(w, eye, target, up, result) ==
  lookAtFromZAxisToRef(w,
    Vector3_subtractToRef(<<eye, target, up, Vector3_Zero, Vector3_Zero, Vector3_Zero>>, 1, 2, 6),
    result, FALSE)

\* the same two with the Vector3 namespace of src/unnamed/part_004
lookAtLHToRef_part004(w, eye, target, up, result) ==
  lookAtFromZAxisToRef(w,
    Vector3_subtractToRef(<<eye, target, up, Vector3_Zero, Vector3_Zero, Vector3_Zero>>, 2, 1, 6),
    result, TRUE)

lookAtRHToRef_part004(w, eye, target, up, result) ==
  lookAtFromZAxisToRef(w,
    Vector3_subtractToRef(<<eye, target, up, Vector3_Zero, Vector3_Zero, Vector3_Zero>>, 1, 2, 6),
    result, TRUE)

getRotationMatrixToRef(w, self, result) ==
  LET withScale(d) ==
        IF ~d.ret
          THEN dropTemporaries(Identity(d.w), Len(w.mats))
          ELSE fromValuesToRef(d.w, decomposeRotationValues(w.mats[self]._m, d.scale[1]),
                               result)
  IN  withScale(decompose(w, self, Some(Vector3_Zero), None, None))

getRotationMatrix(w, self) ==
  LET w1 == create(w)
  IN  getRotationMatrixToRef(w1, self, Last(w1))

-----------------------------------------------------------------------------
(* The state machine of the Matrix API over a small heap *)

TheWorld == World(mats, _updateFlagSeed)

Commit(w) == /\ mats' = w.mats
             /\ _updateFlagSeed' = w.seed
             /\ UNCHANGED <<pc, inp, out>>

CanCall == _updateFlagSeed < MaxSeed
CanAllocate == CanCall /\ Len(mats) < MaxMats

Refs == 1..Len(mats)

Init == /\ mats = <<>>
        /\ _updateFlagSeed = 0
        /\ pc = "api"
        /\ inp = "none"
        /\ out = "none"

\* the element arrays the callers of the state machine pass in
UpperValues == [IdentityValues EXCEPT ![1] = R(2)]
Texture3x2Values == [IdentityValues EXCEPT ![10] = R(0)]
NaNValues == [IdentityValues EXCEPT ![4] = NaN]
InputValues == {IdentityValues, UpperValues, Texture3x2Values, NaNValues}

\* the vectors, quaternions and numbers they pass in
InputScales == {Vector3_create(R(1), R(1), R(1)), Vector3_create(R(2), R(2), R(2))}
InputRotations == {Quaternion_Identity, Quaternion_create(R(1), R(0), R(0), R(0))}
InputTranslations == {Vector3_Zero, Vector3_create(R(1), R(2), R(3))}
InputIndexes == {1, 10}
InputRows == {-1, 0, 4}
InputNumbers == {R(0), R(2)}

Call_create == CanAllocate /\ Commit(create(TheWorld))

Call_fromValues ==
  \E values \in InputValues : CanAllocate /\ Commit(fromValues(TheWorld, values))

Call_Identity == CanAllocate /\ Commit(Identity(TheWorld))

Call_Zero == CanAllocate /\ Commit(Zero(TheWorld))

Call_clone == \E self \in Refs : CanAllocate /\ Commit(clone(TheWorld, self))

Call_compose ==
  \E s \in InputScales, r \in InputRotations, t \in InputTranslations :
    CanAllocate /\ Commit(compose(TheWorld, s, r, t))

Call_invert == \E source \in Refs : CanAllocate /\ Commit(invert(TheWorld, source))

Call_multiply ==
  \E self \in Refs, other \in Refs :
    CanAllocate /\ Commit(multiply(TheWorld, self, other))

Call_transpose == \E matrix \in Refs : CanAllocate /\ Commit(transpose(TheWorld, matrix))

Call_fromValuesToRef ==
  \E values \in InputValues, result \in Refs :
    CanCall /\ Commit(fromValuesToRef(TheWorld, values, result))

Call_fromArrayToRef ==
  \E values \in InputValues, result \in Refs :
    CanCall /\ Commit(fromArrayToRef(TheWorld, values, 0, result))

Call_IdentityToRef ==
  \E result \in Refs : CanCall /\ Commit(IdentityToRef(TheWorld, result))

Call_translationToRef ==
  \E t \in InputTranslations, result \in Refs :
    CanCall /\ Commit(translationToRef(TheWorld, t.x, t.y, t.z, result))

Call_scalingToRef ==
  \E s \in InputScales, result \in Refs :
    CanCall /\ Commit(scalingToRef(TheWorld, s.x, s.y, s.z, result))

Call_composeToRef ==
  \E s \in InputScales, r \in InputRotations, t \in InputTranslations, result \in Refs :
    CanCall /\ Commit(composeToRef(TheWorld, s, r, t, result))

Call_copy ==
  \E from \in Refs, dest \in Refs : CanCall /\ Commit(copy(TheWorld, from, dest))

Call_transposeToRef ==
  \E matrix \in Refs, result \in Refs :
    CanCall /\ Commit(transposeToRef(TheWorld, matrix, result))

Call_multiplyToRef ==
  \E self \in Refs, other \in Refs, result \in Refs :
    CanCall /\ Commit(multiplyToRef(TheWorld, self, other, result))

Call_invertToRef ==
  \E source \in Refs, result \in Refs :
    CanCall /\ Commit(invertToRef(TheWorld, source, result))

Call_addToRef ==
  \E self \in Refs, other \in Refs, result \in Refs :
    CanCall /\ Commit(addToRef(TheWorld, self, other, result))

Call_addToSelf ==
  \E self \in Refs, other \in Refs : CanCall /\ Commit(addToSelf(TheWorld, self, other))

Call_addAtIndex ==
  \E self \in Refs, index \in InputIndexes, value \in InputNumbers :
    CanCall /\ Commit(addAtIndex(TheWorld, self, index, value))

Call_multiplyAtIndex ==
  \E self \in Refs, index \in InputIndexes, value \in InputNumbers :
    CanCall /\ Commit(multiplyAtIndex(TheWorld, self, index, value))

Call_setTranslation ==
  \E self \in Refs, t \in InputTranslations :
    CanCall /\ Commit(setTranslation(TheWorld, self, t))

Call_setRowFromFloats ==
  \E self \in Refs, index \in InputRows, t \in InputTranslations :
    CanCall /\ Commit(setRowFromFloats(TheWorld, self, index, t.x, t.y, t.z, R(1)))

Call_reset == \E self \in Refs : CanCall /\ Commit(reset(TheWorld, self))

Call_lerpToRef ==
  \E startValue \in Refs, endValue \in Refs, gradient \in InputNumbers, result \in Refs :
    CanCall /\ Commit(lerpToRef(TheWorld, startValue, endValue, gradient, result))

Call_scaleToRef ==
  \E self \in Refs, s \in InputNumbers, result \in Refs :
    CanCall /\ Commit(scaleToRef(TheWorld, self, s, result))

Call_orthoOffCenterRHToRef ==
  \E result \in Refs :
    CanCall /\ Commit(orthoOffCenterRHToRef(TheWorld,
                        R(-1), R(1), R(-1), R(1), R(1), R(3), result))

Call_removeRotationAndScaling ==
  \E self \in Refs : CanCall /\ Commit(removeRotationAndScaling(TheWorld, self))

Call_toggleModelMatrixHandInPlace ==
  \E self \in Refs : CanCall /\ Commit(toggleModelMatrixHandInPlace(TheWorld, self))

Call_toggleProjectionMatrixHandInPlace ==
  \E self \in Refs : CanCall /\ Commit(toggleProjectionMatrixHandInPlace(TheWorld, self))

Call_isIdentityUpdate ==
  \E self \in Refs : CanCall /\ Commit(isIdentityUpdate(TheWorld, self))

Call_isIdentityAs3x2Update ==
  \E self \in Refs : CanCall /\ Commit(isIdentityAs3x2Update(TheWorld, self))

Next == \/ Call_create
        \/ Call_fromValues
        \/ Call_Identity
        \/ Call_Zero
        \/ Call_clone
        \/ Call_compose
        \/ Call_invert
        \/ Call_multiply
        \/ Call_transpose
        \/ Call_fromValuesToRef
        \/ Call_fromArrayToRef
        \/ Call_IdentityToRef
        \/ Call_translationToRef
        \/ Call_scalingToRef
        \/ Call_composeToRef
        \/ Call_copy
        \/ Call_transposeToRef
        \/ Call_multiplyToRef
        \/ Call_invertToRef
        \/ Call_addToRef
        \/ Call_addToSelf
        \/ Call_addAtIndex
        \/ Call_multiplyAtIndex
        \/ Call_setTranslation
        \/ Call_setRowFromFloats
        \/ Call_reset
        \/ Call_lerpToRef
        \/ Call_scaleToRef
        \/ Call_orthoOffCenterRHToRef
        \/ Call_removeRotationAndScaling
        \/ Call_toggleModelMatrixHandInPlace
        \/ Call_toggleProjectionMatrixHandInPlace
        \/ Call_isIdentityUpdate
        \/ Call_isIdentityAs3x2Update

Spec == Init /\ [][Next]_vars

-----------------------------------------------------------------------------
(* Claims about the version stamp and the cached identity flags (Spec) *)

\* C1: an operation that changes any element of a matrix leaves that matrix
\* with a strictly greater updateFlag, and no operation lowers an updateFlag;
\* so two observations of one matrix with equal updateFlag have equal elements.
C1_UpdateFlagGrowsOnMutation ==
  [][\A i \in 1..Len(mats) :
       /\ mats'[i].updateFlag >= mats[i].updateFlag
       /\ mats'[i]._m # mats[i]._m => mats'[i].updateFlag > mats[i].updateFlag]_vars

\* a matrix built by fromValues and then changed in place by addAtIndex
C1_Witness ==
  \E i \in 1..Len(mats) :
    /\ mats[i]._m = [UpperValues EXCEPT ![1] = R(4)]
    /\ mats[i].updateFlag = 2

\* C2: any two distinct matrices of the heap hold different updateFlag values.
C2_UpdateFlagsDistinct ==
  \A i \in 1..Len(mats), j \in 1..Len(mats) :
    i # j => mats[i].updateFlag # mats[j].updateFlag

\* two matrices, the older one stamped again after the newer one was made
C2_Witness ==
  /\ Len(mats) = 2
  /\ mats[1].updateFlag > mats[2].updateFlag

\* C3: whenever _isIdentityDirty is false, isIdentity is true exactly when the
\* 16 elements are those of the identity matrix; and isIdentity is never true
\* while _isIdentityDirty is true.
C3_IdentityFlagTrusted ==
  \A i \in 1..Len(mats) :
    /\ ~mats[i]._isIdentityDirty =>
         (mats[i].isIdentity <=> mats[i]._m = IdentityValues)
    /\ ~(mats[i].isIdentity /\ mats[i]._isIdentityDirty)

\* C4: whenever _isIdentity3x2Dirty is false, the cached isIdentity3x2 is the
\* value isIdentityAs3x2Update computes from the elements.
C4_Identity3x2FlagTrusted ==
  \A i \in 1..Len(mats) :
    ~mats[i]._isIdentity3x2Dirty =>
      mats[i].isIdentity3x2 = isIdentityAs3x2Value(mats[i]._m)


\* what isIdentityUpdate would return for matrix i of a world
isIdentityUpdateValue(w, i) == isIdentityUpdate(w, i).mats[i].isIdentity

\* C19: after Identity() the new matrix, and after IdentityToRef(result) the
\* matrix result, whatever it held, has the elements of the identity and
\* isIdentityUpdate returns true for it
C19_IdentityYieldsIdentity ==
  [][/\ \A result \in Refs :
          (CanCall /\ mats' = IdentityToRef(TheWorld, result).mats
                   /\ _updateFlagSeed' = IdentityToRef(TheWorld, result).seed) =>
            /\ mats'[result]._m = IdentityValues
            /\ isIdentityUpdateValue(World(mats', _updateFlagSeed'), result)
     /\ (CanAllocate /\ mats' = Identity(TheWorld).mats
                     /\ _updateFlagSeed' = Identity(TheWorld).seed) =>
          /\ mats'[Len(mats')]._m = IdentityValues
          /\ isIdentityUpdateValue(World(mats', _updateFlagSeed'), Len(mats'))]_vars

\* two matrices, the first of which was stamped after the second and holds
\* the identity with its flag set: the first was overwritten after the second
\* was built
C19_Witness ==
  /\ Len(mats) = 2
  /\ mats[1]._m = IdentityValues /\ mats[1].isIdentity /\ ~mats[1]._isIdentityDirty
  /\ mats[2]._m # IdentityValues
  /\ mats[1].updateFlag > mats[2].updateFlag

\* C20 as stated: in every reachable state, for all matrices self, other and
\* result, multiplyToRef(self, other, result) leaves result with the 16
\* elements multiplyToArray computes from self and other, also when it
\* copies an operand because the isIdentity flag of the other is set
C20_MultiplyToRefIsProductAsStated ==
  \A self \in Refs, other \in Refs, result \in Refs :
    multiplyToRef(TheWorld, self, other, result).mats[result]._m
      = multiplyToArray(mats[self], mats[other])

\* every element of the matrix is a number other than NaN
FiniteElements(m) == \A index \in 0..15 : ~IsNaN(m._m[index])

\* C20: in every reachable state, for all matrices self and other whose
\* elements are finite numbers and every result, multiplyToRef(self, other,
\* result) leaves result with the 16 elements multiplyToArray computes from
\* self and other, also when it copies an operand because the isIdentity
\* flag of the other is set
C20_MultiplyToRefIsProduct ==
  \A self \in Refs, other \in Refs, result \in Refs :
    (FiniteElements(mats[self]) /\ FiniteElements(mats[other])) =>
      multiplyToRef(TheWorld, self, other, result).mats[result]._m
        = multiplyToArray(mats[self], mats[other])

\* a matrix whose isIdentity flag is set and another whose elements are
\* finite and not the identity: multiplyToRef copies the second
C20_Witness ==
  \E self \in Refs, other \in Refs :
    /\ mats[self].isIdentity
    /\ FiniteElements(mats[other])
    /\ mats[other]._m # IdentityValues
    /\ multiplyToRef(TheWorld, self, other, self).mats[self]._m = mats[other]._m

\* the element of row r and column c of a 4x4 array of 16 elements
ElementAt(m, r, c) == m[4 * r + c]

\* the determinant of rows 1..3 restricted to columns c1 < c2 < c3
Minor3(m, c1, c2, c3) ==
  ((ElementAt(m, 1, c1) (.) (ElementAt(m, 2, c2) (.) ElementAt(m, 3, c3)
                               (-) ElementAt(m, 2, c3) (.) ElementAt(m, 3, c2)))
   (-) (ElementAt(m, 1, c2) (.) (ElementAt(m, 2, c1) (.) ElementAt(m, 3, c3)
                                   (-) ElementAt(m, 2, c3) (.) ElementAt(m, 3, c1))))
   (+) (ElementAt(m, 1, c3) (.) (ElementAt(m, 2, c1) (.) ElementAt(m, 3, c2)
                                   (-) ElementAt(m, 2, c2) (.) ElementAt(m, 3, c1)))

\* the determinant of a 4x4 array by Laplace expansion along row 0
LaplaceDeterminant(m) ==
  (((ElementAt(m, 0, 0) (.) Minor3(m, 1, 2, 3))
    (-) (ElementAt(m, 0, 1) (.) Minor3(m, 0, 2, 3)))
    (+) (ElementAt(m, 0, 2) (.) Minor3(m, 0, 1, 3)))
    (-) (ElementAt(m, 0, 3) (.) Minor3(m, 0, 1, 2))

\* C27: in every reachable state, determinant(M) is the determinant of the
\* 16 elements of M, also when it returns 1 because M.isIdentity is true
C27_DeterminantIsMathematical ==
  \A self \in Refs : determinant(mats[self]) = LaplaceDeterminant(mats[self]._m)

\* a matrix whose flag is set, for which determinant returns 1 at once,
\* beside one of determinant 8
C27_Witness ==
  \E self \in Refs, other \in Refs :
    /\ mats[self].isIdentity /\ determinant(mats[self]) = R(1)
    /\ ~mats[other].isIdentity /\ determinant(mats[other]) = R(8)

\* the world with one more matrix, as create() returns it, to be passed as a
\* result that is no operand
WithFresh == create(TheWorld)

\* C29: transposeToRef, invertToRef, multiplyToRef, addToRef, scaleToRef and
\* lerpToRef called with a result that is one of the operands leave in it
\* the 16 elements the same call leaves in a separate new matrix
C29_MatrixToRefToleratesAliasing ==
  \A a \in Refs, b \in Refs, result \in Refs :
    result \in {a, b} =>
      /\ transposeToRef(TheWorld, a, a).mats[a]._m
           = transposeToRef(WithFresh, a, Last(WithFresh)).mats[Last(WithFresh)]._m
      /\ invertToRef(TheWorld, a, a).mats[a]._m
           = invertToRef(WithFresh, a, Last(WithFresh)).mats[Last(WithFresh)]._m
      /\ multiplyToRef(TheWorld, a, b, result).mats[result]._m
           = multiplyToRef(WithFresh, a, b, Last(WithFresh)).mats[Last(WithFresh)]._m
      /\ addToRef(TheWorld, a, b, result).mats[result]._m
           = addToRef(WithFresh, a, b, Last(WithFresh)).mats[Last(WithFresh)]._m
      /\ \A number \in InputNumbers :
           /\ scaleToRef(TheWorld, a, number, a).mats[a]._m
                = scaleToRef(WithFresh, a, number, Last(WithFresh)).mats[Last(WithFresh)]._m
           /\ lerpToRef(TheWorld, a, b, number, result).mats[result]._m
                = lerpToRef(WithFresh, a, b, number, Last(WithFresh)).mats[Last(WithFresh)]._m

-----------------------------------------------------------------------------
(* compose and decompose: a caller builds one matrix, may refresh its cached
   identity flag, and decomposes it into three objects it has pre-filled *)

\* the vectors and quaternions the caller pre-fills the outputs with
NaNVector == Vector3_create(NaN, NaN, NaN)
NaNQuaternion == Quaternion_create(NaN, NaN, NaN, NaN)
SentinelKinds == {"NaN", "used"}
SentinelVector(k) == IF k = "NaN" THEN NaNVector ELSE Vector3_create(R(7), R(8), R(9))
SentinelQuaternion(k) ==
  IF k = "NaN" THEN NaNQuaternion ELSE Quaternion_create(R(0), R(1), R(0), R(0))

\* unit quaternions whose rotation matrices and back-conversions are rational
Half == <<1, 2>>
UnitRotations ==
  { Quaternion_create(R(0), R(0), R(0), R(1)),
    Quaternion_create(R(1), R(0), R(0), R(0)),
    Quaternion_create(R(0), R(1), R(0), R(0)),
    Quaternion_create(R(0), R(0), R(-1), R(0)),
    Quaternion_create(Half, Half, Half, Half),
    Quaternion_create(RNeg(Half), Half, RNeg(Half), Half) }
\* the rotations handed to compose: those, and one with a NaN component
ComposeRotations ==
  UnitRotations \cup {Quaternion_create(NaN, R(0), R(0), R(1))}
PositiveScales ==
  { Vector3_create(R(1), R(1), R(1)), Vector3_create(R(2), R(2), R(2)),
    Vector3_create(R(1), R(2), R(3)), Vector3_create(Half, R(1), R(4)) }
Translations ==
  { Vector3_create(R(0), R(0), R(0)), Vector3_create(R(1), R(2), R(3)),
    Vector3_create(R(-4), R(0), Half) }

\* element arrays handed to fromValues: the rows of a rotation, each scaled by
\* a factor that may be zero, over a translation
RowFactors == {R(0), R(1), R(-2)}
BasisRows ==
  { <<<<1, 0, 0>>, <<0, 1, 0>>, <<0, 0, 1>>>>,
    <<<<0, 1, 0>>, <<0, 0, 1>>, <<1, 0, 0>>>>,
    <<<<1, 0, 0>>, <<0, -1, 0>>, <<0, 0, -1>>>> }
RowsValues(b, f, t) ==
  M16(<< f[1] (.) R(b[1][1]), f[1] (.) R(b[1][2]), f[1] (.) R(b[1][3]), R(0),
         f[2] (.) R(b[2][1]), f[2] (.) R(b[2][2]), f[2] (.) R(b[2][3]), R(0),
         f[3] (.) R(b[3][1]), f[3] (.) R(b[3][2]), f[3] (.) R(b[3][3]), R(0),
         t.x, t.y, t.z, R(1) >>)

InitDecompose == /\ mats = <<>>
                 /\ _updateFlagSeed = 0
                 /\ pc = "start"
                 /\ inp = "none"
                 /\ out = "none"

Dec_compose ==
  /\ pc = "start"
  /\ \E s \in PositiveScales, r \in ComposeRotations, t \in Translations :
       LET w == compose(TheWorld, s, r, t)
       IN  /\ mats' = w.mats
           /\ _updateFlagSeed' = w.seed
           /\ inp' = [scale |-> s, rotation |-> r, translation |-> t]
  /\ pc' = "composed"
  /\ UNCHANGED out

Dec_Identity ==
  /\ pc = "start"
  /\ LET w == Identity(TheWorld)
     IN  /\ mats' = w.mats
         /\ _updateFlagSeed' = w.seed
  /\ pc' = "identity"
  /\ UNCHANGED <<inp, out>>

Dec_fromValues ==
  /\ pc = "start"
  /\ \E b \in BasisRows, f1 \in RowFactors, f2 \in RowFactors, f3 \in RowFactors :
       \E t \in {Vector3_create(R(0), R(0), R(0)), Vector3_create(R(1), R(2), R(3))} :
         LET w == fromValues(TheWorld, RowsValues(b, <<f1, f2, f3>>, t))
         IN  /\ mats' = w.mats
             /\ _updateFlagSeed' = w.seed
  /\ pc' = "fromValues"
  /\ UNCHANGED <<inp, out>>

Dec_isIdentityUpdate ==
  /\ pc \in {"composed", "identity", "fromValues"}
  /\ mats' = isIdentityUpdate(TheWorld, 1).mats
  /\ UNCHANGED <<_updateFlagSeed, pc, inp, out>>

Dec_decompose ==
  /\ pc \in {"composed", "identity", "fromValues"}
  /\ \E k \in SentinelKinds :
       LET d == decompose(TheWorld, 1, Some(SentinelVector(k)),
                          Some(SentinelQuaternion(k)), Some(SentinelVector(k)))
       IN  /\ mats' = d.w.mats
           /\ _updateFlagSeed' = d.w.seed
           /\ out' = [of |-> pc, sentinel |-> k, ret |-> d.ret,
                      sOut |-> d.scale[1], rOut |-> d.rotation[1],
                      tOut |-> d.translation[1]]
  /\ pc' = "decomposed"
  /\ UNCHANGED inp

\* getRotationMatrix of the matrix built; ret is what decompose returns for it
Dec_getRotationMatrix ==
  /\ pc \in {"composed", "identity", "fromValues"}
  /\ LET w == getRotationMatrix(TheWorld, 1)
     IN  /\ mats' = w.mats
         /\ _updateFlagSeed' = w.seed
  /\ out' = [of |-> pc,
             ret |-> decompose(TheWorld, 1, Some(Vector3_Zero), None, None).ret]
  /\ pc' = "rotationMatrix"
  /\ UNCHANGED inp

NextDecompose == \/ Dec_compose
                 \/ Dec_Identity
                 \/ Dec_fromValues
                 \/ Dec_isIdentityUpdate
                 \/ Dec_decompose
                 \/ Dec_getRotationMatrix

SpecDecompose == InitDecompose /\ [][NextDecompose]_vars

\* C5: decomposing compose(s, r, t) into pre-filled sOut, rOut, tOut returns
\* true and leaves tOut = t, sOut = s and a zero angle between r and rOut
C5_DecomposeInvertsCompose ==
  (pc = "decomposed" /\ out.of = "composed") =>
    /\ out.ret = TRUE
    /\ out.tOut = inp.translation
    /\ out.sOut = inp.scale
    /\ Quaternion_angleIsZero(inp.rotation, out.rOut)

\* C6: decomposing Identity() into outputs pre-filled with NaN returns true and
\* leaves tOut = (0,0,0), sOut = (1,1,1) and rOut = (0,0,0,1)
C6_DecomposeIdentityWritesOutputs ==
  (pc = "decomposed" /\ out.of = "identity" /\ out.sentinel = "NaN") =>
    /\ out.ret = TRUE
    /\ out.tOut = Vector3_create(R(0), R(0), R(0))
    /\ out.sOut = Vector3_create(R(1), R(1), R(1))
    /\ out.rOut = Quaternion_create(R(0), R(0), R(0), R(1))

\* a row of the upper 3x3 block is all zero, so its magnitude is zero
HasZeroRow(m) ==
  \/ m[0] = R(0) /\ m[1] = R(0) /\ m[2] = R(0)
  \/ m[4] = R(0) /\ m[5] = R(0) /\ m[6] = R(0)
  \/ m[8] = R(0) /\ m[9] = R(0) /\ m[10] = R(0)

\* C7: when the cached isIdentity flag is false and a row of the upper 3x3
\* block has magnitude zero, decompose returns false and the caller's rotation
\* object holds what it held before the call
C7_DecomposeZeroScaleKeepsRotation ==
  (pc = "decomposed" /\ ~mats[1].isIdentity /\ HasZeroRow(mats[1]._m)) =>
    /\ out.ret = FALSE
    /\ out.rOut = SentinelQuaternion(out.sentinel)

\* a matrix with a zero row, its flag refreshed to false, decomposed into NaNs
C7_Witness ==
  /\ pc = "decomposed"
  /\ ~mats[1].isIdentity
  /\ ~mats[1]._isIdentityDirty
  /\ HasZeroRow(mats[1]._m)
  /\ mats[1]._m[0] = R(-2)
  /\ out.sentinel = "NaN"
  /\ out.ret = FALSE
  /\ out.rOut = NaNQuaternion

\* the product scaling(scale) * fromQuaternion(rotation) as multiplyToArray
\* computes it, with elements 12, 13, 14 replaced by the translation
ScaleTimesRotationThenTranslation(scale, rotation, translation) ==
  LET w == fromQuaternionToRef(
             scalingToRef(create(create(World(<<>>, 0))), scale.x, scale.y, scale.z, 1),
             rotation, 2)
      withTranslation(product) ==
        [product EXCEPT ![12] = translation.x, ![13] = translation.y,
                        ![14] = translation.z]
  IN  withTranslation(multiplyToArray(w.mats[1], w.mats[2]))

\* C21 as stated: for all scale, rotation and translation, compose(scale,
\* rotation, translation) has the elements of scaling(scale) *
\* fromQuaternion(rotation), elements 12, 13, 14 replaced by the translation
C21_ComposeIsScaleTimesRotationAsStated ==
  pc = "composed" =>
    mats[1]._m = ScaleTimesRotationThenTranslation(inp.scale, inp.rotation,
                                                   inp.translation)

\* C21: for all scale, rotation and translation with finite components,
\* compose(scale, rotation, translation) has the elements of scaling(scale) *
\* fromQuaternion(rotation), elements 12, 13, 14 replaced by the
\* translation, also when scale is (1, 1, 1) and multiplyToRef copies
C21_ComposeIsScaleTimesRotation ==
  (pc = "composed" /\ ~IsNaN(inp.rotation.x)) =>
    mats[1]._m = ScaleTimesRotationThenTranslation(inp.scale, inp.rotation,
                                                   inp.translation)

\* scale (1, 2, 3) and a third of a turn about (1, 1, 1): the rows of the
\* rotation are scaled by 1, 2 and 3
C21_Witness ==
  /\ pc = "composed"
  /\ inp.scale = Vector3_create(R(1), R(2), R(3))
  /\ inp.rotation = Quaternion_create(Half, Half, Half, Half)
  /\ inp.translation = Vector3_create(R(-4), R(0), Half)
  /\ mats[1]._m[1] = R(1) /\ mats[1]._m[6] = R(2) /\ mats[1]._m[8] = R(3)
  /\ mats[1]._m[12] = R(-4) /\ mats[1]._m[14] = Half

\* C22: decompose called on a matrix whose isIdentity flag is true returns
\* true and leaves (0, 0, 0) in the caller's translation object and (0, 0, 0)
\* in the caller's scale object
C22_DecomposeFlaggedWritesZeros ==
  (pc = "decomposed" /\ mats[1].isIdentity) =>
    /\ out.ret = TRUE
    /\ out.tOut = Vector3_create(R(0), R(0), R(0))
    /\ out.sOut = Vector3_create(R(0), R(0), R(0))

\* C23: for a matrix whose isIdentity flag is false, decompose leaves in the
\* caller's scale object the magnitudes of rows 0, 1 and 2 of the upper 3x3
\* block, that of row 1 negated exactly when the determinant is not
\* positive, and in the caller's translation object (m[12], m[13], m[14])
C23_DecomposeWritesScaleAndTranslation ==
  (pc = "decomposed" /\ ~mats[1].isIdentity) =>
    /\ out.sOut.x = rowMagnitudes(mats[1]._m).x
    /\ out.sOut.y = IF RLe(determinant(mats[1]), R(0))
                    THEN RNeg(rowMagnitudes(mats[1]._m).y)
                    ELSE rowMagnitudes(mats[1]._m).y
    /\ out.sOut.z = rowMagnitudes(mats[1]._m).z
    /\ out.tOut = Vector3_create(mats[1]._m[12], mats[1]._m[13], mats[1]._m[14])

\* what decompose returns and leaves in outputs pre-filled with sentinel k
\* for the matrix fromValues(1,0,0,0, 0,1,0,0, 0,0,1,0, 0,0,0,1) builds
DecomposeOfFromValuesIdentity(k) ==
  LET from(d) == [ret |-> d.ret, sOut |-> d.scale[1], rOut |-> d.rotation[1],
                  tOut |-> d.translation[1]]
  IN  from(decompose(fromValues(World(<<>>, 0), IdentityValues), 1,
                     Some(SentinelVector(k)), Some(SentinelQuaternion(k)),
                     Some(SentinelVector(k))))

\* C28: decompose of a matrix with the 16 elements of the identity returns
\* the same boolean and leaves the same scale, rotation and translation
\* whether the matrix was built by Identity() (flag set) or by fromValues
\* (flag false and dirty)
C28_DecomposeDependsOnElementsOnly ==
  (pc = "decomposed" /\ mats[1]._m = IdentityValues) =>
    [ret |-> out.ret, sOut |-> out.sOut, rOut |-> out.rOut, tOut |-> out.tOut]
      = DecomposeOfFromValuesIdentity(out.sentinel)

\* the scale decompose computes from the elements: the row magnitudes, that
\* of row 1 negated when the determinant is not positive
ScaleOfRows(me) ==
  LET signed(mag) == [x |-> mag.x,
                      y |-> IF RLe(determinant(me), R(0)) THEN RNeg(mag.y) ELSE mag.y,
                      z |-> mag.z]
  IN  signed(rowMagnitudes(me._m))

\* C30: for self with finite elements, getRotationMatrix leaves in its result
\* finite elements: the rows of the upper 3x3 block of self each divided by
\* its scale when decompose returns true, and the identity when it returns
\* false; for a matrix with the elements of the identity the result is the
\* identity
C30_RotationMatrixIsFinite ==
  (pc = "rotationMatrix" /\ FiniteElements(mats[1])) =>
    /\ \A index \in 0..15 : ~IsNaN(mats[2]._m[index])
    /\ out.ret => mats[2]._m = decomposeRotationValues(mats[1]._m, ScaleOfRows(mats[1]))
    /\ ~out.ret => mats[2]._m = IdentityValues
    /\ mats[1]._m = IdentityValues => mats[2]._m = IdentityValues

-----------------------------------------------------------------------------
(* invert: a caller builds one matrix from integer rows, may refresh its
   cached identity flag, and inverts it *)

\* the rows handed to fromValues; some choices give determinant 0
InvertRow0 == {<<1, 0, 0, 0>>, <<2, 1, 0, 0>>, <<0, 0, 0, 0>>}
InvertRow1 == {<<0, 1, 0, 0>>, <<1, 1, 0, 0>>, <<2, 1, 0, 0>>}
InvertRow2 == {<<0, 0, 1, 0>>, <<0, 1, 2, 1>>}
InvertRow3 == {<<0, 0, 0, 1>>, <<1, 2, 3, 1>>, <<0, 0, 1, 0>>}
FromRows(r0, r1, r2, r3) == M16([i \in 1..16 |-> R((r0 \o r1 \o r2 \o r3)[i])])

InitInvert == /\ mats = <<>>
              /\ _updateFlagSeed = 0
              /\ pc = "start"
              /\ inp = "none"
              /\ out = "none"

Inv_fromValues ==
  /\ pc = "start"
  /\ \E r0 \in InvertRow0, r1 \in InvertRow1, r2 \in InvertRow2, r3 \in InvertRow3 :
       LET w == fromValues(TheWorld, FromRows(r0, r1, r2, r3))
       IN  /\ mats' = w.mats
           /\ _updateFlagSeed' = w.seed
           /\ inp' = w.mats[1]._m
  /\ pc' = "source"
  /\ UNCHANGED out

Inv_isIdentityUpdate ==
  /\ pc = "source"
  /\ mats' = isIdentityUpdate(TheWorld, 1).mats
  /\ UNCHANGED <<_updateFlagSeed, pc, inp, out>>

Inv_create ==
  /\ pc = "source"
  /\ Len(mats) = 1
  /\ LET w == create(TheWorld)
     IN  /\ mats' = w.mats
         /\ _updateFlagSeed' = w.seed
  /\ UNCHANGED <<pc, inp, out>>

Inv_invertToRef ==
  /\ pc = "source"
  /\ \E result \in Refs :
       LET w == invertToRef(TheWorld, 1, result)
       IN  /\ mats' = w.mats
           /\ _updateFlagSeed' = w.seed
           /\ out' = [result |-> result, isIdentity |-> mats[1].isIdentity,
                      detInv |-> invertPath(mats[1]).detInv]
  /\ pc' = "invertedToRef"
  /\ UNCHANGED inp

Inv_invert ==
  /\ pc = "source"
  /\ Len(mats) = 1
  /\ LET w == invert(TheWorld, 1)
     IN  /\ mats' = w.mats
         /\ _updateFlagSeed' = w.seed
  /\ pc' = "inverted"
  /\ UNCHANGED <<inp, out>>

Inv_invertAgain ==
  /\ pc = "inverted"
  /\ LET w == invert(TheWorld, 2)
     IN  /\ mats' = w.mats
         /\ _updateFlagSeed' = w.seed
  /\ pc' = "invertedTwice"
  /\ UNCHANGED <<inp, out>>

Inv_multiply ==
  /\ pc = "inverted"
  /\ LET w == multiply(TheWorld, 1, 2)
     IN  /\ mats' = w.mats
         /\ _updateFlagSeed' = w.seed
  /\ pc' = "multiplied"
  /\ UNCHANGED <<inp, out>>

NextInvert == \/ Inv_fromValues
              \/ Inv_isIdentityUpdate
              \/ Inv_create
              \/ Inv_invertToRef
              \/ Inv_invert
              \/ Inv_invertAgain
              \/ Inv_multiply

SpecInvert == InitInvert /\ [][NextInvert]_vars

\* C8: for a source whose determinant is exactly 0 and whose isIdentity flag
\* is false, invertToRef(source, result) leaves result with the 16 elements of
\* source, divides by nothing, and leaves source as it was
C8_InvertSingularCopies ==
  (pc = "invertedToRef" /\ firstRowCofactors(inp).det = R(0) /\ ~out.isIdentity) =>
    /\ mats[out.result]._m = inp
    /\ out.detInv = None
    /\ mats[1]._m = inp

\* a singular source inverted into a second matrix
C8_Witness ==
  /\ pc = "invertedToRef"
  /\ firstRowCofactors(inp).det = R(0)
  /\ inp[0] = R(2)
  /\ ~out.isIdentity
  /\ out.result = 2
  /\ mats[2]._m = inp

\* C9: for a matrix M with non-zero determinant, invert(invert(M)) has the
\* elements of M and multiply(M, invert(M)) has the elements of the identity
C9_InvertIsInvolution ==
  /\ (pc = "invertedTwice" /\ firstRowCofactors(inp).det # R(0)) => mats[3]._m = inp
  /\ (pc = "multiplied" /\ firstRowCofactors(inp).det # R(0)) =>
       mats[3]._m = IdentityValues

\* a matrix of determinant 2, not symmetric, multiplied by its inverse
C9_Witness ==
  /\ pc = "multiplied"
  /\ firstRowCofactors(inp).det = R(2)
  /\ inp[12] = R(1)
  /\ mats[2]._m # inp
  /\ mats[3]._m = IdentityValues

-----------------------------------------------------------------------------
(* Quaternion.multiply by the identity quaternion, on either side *)

QuaternionComponents == {R(0), R(1), R(-2), Half}

InitQuaternion == /\ mats = <<>>
                  /\ _updateFlagSeed = 0
                  /\ pc = "start"
                  /\ inp = "none"
                  /\ out = "none"

Quat_multiplyByIdentity ==
  /\ pc = "start"
  /\ \E x \in QuaternionComponents, y \in QuaternionComponents :
       \E z \in QuaternionComponents, t \in QuaternionComponents :
         /\ inp' = Quaternion_create(x, y, z, t)
         /\ out' = Quaternion_multiply(Quaternion_create(x, y, z, t), Quaternion_Identity)
  /\ pc' = "byIdentity"
  /\ UNCHANGED <<mats, _updateFlagSeed>>

Quat_multiplyIdentityBy ==
  /\ pc = "start"
  /\ \E x \in QuaternionComponents, y \in QuaternionComponents :
       \E z \in QuaternionComponents, t \in QuaternionComponents :
         /\ inp' = Quaternion_create(x, y, z, t)
         /\ out' = Quaternion_multiply(Quaternion_Identity, Quaternion_create(x, y, z, t))
  /\ pc' = "identityBy"
  /\ UNCHANGED <<mats, _updateFlagSeed>>

\* quaternions whose pairwise dot products c keep sqrt(1 - c * c) rational:
\* unit ones in the x-y plane, the identity, and one of length 2
SlerpQuaternions ==
  { Quaternion_create(x, y, R(0), R(0)) :
      x \in {Rat(3, 5), Rat(-3, 5)}, y \in {Rat(4, 5), Rat(-4, 5)} }
  \cup { Quaternion_create(x, y, R(0), R(0)) :
           x \in {Rat(4, 5), Rat(-4, 5)}, y \in {Rat(3, 5), Rat(-3, 5)} }
  \cup { Quaternion_create(R(1), R(0), R(0), R(0)),
         Quaternion_create(R(-1), R(0), R(0), R(0)),
         Quaternion_create(R(0), R(1), R(0), R(0)),
         Quaternion_create(R(0), R(-1), R(0), R(0)),
         Quaternion_Identity,
         Quaternion_create(R(2), R(0), R(0), R(0)) }

Quaternion_negate(q) ==
  Quaternion_create(RNeg(q.x), RNeg(q.y), RNeg(q.z), RNeg(q.w))

Quat_slerp ==
  /\ pc = "start"
  /\ \E left \in SlerpQuaternions, right \in SlerpQuaternions :
       \E amount \in {R(0), R(1)} :
         /\ inp' = [left |-> left, right |-> right, amount |-> amount]
         /\ out' = Quaternion_slerp(left, right, amount)
  /\ pc' = "slerp"
  /\ UNCHANGED <<mats, _updateFlagSeed>>

\* the two calls below pass a result that is the object left (result = 1),
\* the object right, or a third object; got is what the result holds
\* afterwards and fresh what a third object would hold after the same call
Quat_multiplyToRef ==
  /\ pc = "start"
  /\ \E self \in SlerpQuaternions, q1 \in SlerpQuaternions, result \in 1..3 :
       LET h == <<self, q1, Quaternion_create(R(7), R(8), R(9), R(10))>>
       IN  /\ inp' = [self |-> self, q1 |-> q1, result |-> result]
           /\ out' = [got |-> Quaternion_multiplyToRef(h, 1, 2, result)[result],
                      fresh |-> Quaternion_multiplyToRef(h, 1, 2, 3)[3]]
  /\ pc' = "multiplyToRef"
  /\ UNCHANGED <<mats, _updateFlagSeed>>

Quat_slerpToRef ==
  /\ pc = "start"
  /\ \E left \in SlerpQuaternions, right \in SlerpQuaternions, result \in 1..3 :
       \E amount \in {R(0), R(1)} :
         LET h == <<left, right, Quaternion_create(R(7), R(8), R(9), R(10))>>
         IN  /\ inp' = [left |-> left, right |-> right, amount |-> amount,
                        result |-> result]
             /\ out' = [got |-> Quaternion_slerpToRef(h, 1, 2, amount, result)[result],
                        fresh |-> Quaternion_slerpToRef(h, 1, 2, amount, 3)[3]]
  /\ pc' = "slerpToRef"
  /\ UNCHANGED <<mats, _updateFlagSeed>>

Quat_angleAxis ==
  /\ pc = "start"
  /\ \E degress \in {R(0), R(180), R(360), R(-180)} :
       \E axis \in { Vector3_create(R(0), R(0), R(0)), Vector3_create(R(1), R(0), R(0)),
                     Vector3_create(R(-1), R(0), R(0)), Vector3_create(R(0), R(1), R(0)),
                     Vector3_create(R(0), R(0), R(2)), Vector3_create(R(3), R(4), R(0)) } :
         /\ inp' = [degress |-> degress, axis |-> axis]
         /\ out' = Quaternion_angleAxis(degress, axis)
  /\ pc' = "angleAxis"
  /\ UNCHANGED <<mats, _updateFlagSeed>>

\* pairs of directions along one axis (same way, opposite, one of them zero,
\* different lengths), and one pair 2 * acos(4/5) apart, for which the
\* quaternion built from the cross product has a rational length
AlongX == { Vector3_create(x, R(0), R(0)) : x \in {R(1), R(-1), R(2), R(0)} }
AlongY == { Vector3_create(R(0), y, R(0)) : y \in {R(1), R(-1), R(-3), R(0)} }
FromToPairs ==
  (AlongX \X AlongX) \cup (AlongY \X AlongY)
    \cup {<<Vector3_create(R(1), R(0), R(0)), Vector3_create(R(7), R(24), R(0))>>}
UpVectors ==
  { Vector3_create(R(0), R(1), R(0)), Vector3_create(R(-1), R(0), R(0)),
    Vector3_create(R(0), R(3), R(4)), Vector3_create(R(0), R(0), R(0)) }

Quat_fromToRotation ==
  /\ pc = "start"
  /\ \E pair \in FromToPairs, up \in UpVectors :
       /\ inp' = [from |-> pair[1], to |-> pair[2], up |-> up]
       /\ out' = Quaternion_fromToRotation(pair[1], pair[2], up)
  /\ pc' = "fromToRotation"
  /\ UNCHANGED <<mats, _updateFlagSeed>>

Quat_fromToRotation_part004 ==
  /\ pc = "start"
  /\ \E pair \in FromToPairs, up \in UpVectors :
       /\ inp' = [from |-> pair[1], to |-> pair[2], up |-> up]
       /\ out' = Quaternion_fromToRotation_part004(pair[1], pair[2], up)
  /\ pc' = "fromToRotation_part004"
  /\ UNCHANGED <<mats, _updateFlagSeed>>

Quat_normalize ==
  /\ pc = "start"
  /\ \E q \in SlerpQuaternions \cup {Quaternion_create(R(0), R(0), R(0), R(0))} :
       /\ inp' = q
       /\ out' = Quaternion_normalize(q)
  /\ pc' = "normalize"
  /\ UNCHANGED <<mats, _updateFlagSeed>>

NextQuaternion == \/ Quat_multiplyByIdentity
                  \/ Quat_multiplyIdentityBy
                  \/ Quat_slerp
                  \/ Quat_multiplyToRef
                  \/ Quat_slerpToRef
                  \/ Quat_angleAxis
                  \/ Quat_fromToRotation
                  \/ Quat_fromToRotation_part004
                  \/ Quat_normalize

SpecQuaternion == InitQuaternion /\ [][NextQuaternion]_vars

\* C10: multiply(q, Identity()) and multiply(Identity(), q) both return a
\* quaternion whose four components are those of q, unit or not
C10_IdentityIsNeutral ==
  pc \in {"byIdentity", "identityBy"} => out = inp

\* a non-unit quaternion multiplied on the left by the identity
C10_Witness ==
  /\ pc = "identityBy"
  /\ inp = Quaternion_create(R(-2), Half, R(1), R(-2))
  /\ out = inp

\* C11 as stated: slerp(a, b, 0) has the components of a and slerp(a, b, 1)
\* those of b, whatever the sign of the dot product of a and b
C11_SlerpEndpointsAsStated ==
  pc = "slerp" =>
    /\ inp.amount = R(0) => out = inp.left
    /\ inp.amount = R(1) => out = inp.right

\* C11: slerp(a, b, 0) has the components of a; slerp(a, b, 1) has the
\* components of b when the dot product of a and b is not negative, and
\* those of b negated when it is negative
C11_SlerpEndpoints ==
  pc = "slerp" =>
    /\ inp.amount = R(0) => out = inp.left
    /\ inp.amount = R(1) =>
         out = IF RLt(Quaternion_dot(inp.left, inp.right), R(0))
               THEN Quaternion_negate(inp.right) ELSE inp.right

\* the end of the arc between two unit quaternions of dot product -3/5
C11_Witness ==
  /\ pc = "slerp"
  /\ inp.amount = R(1)
  /\ inp.left = Quaternion_create(R(1), R(0), R(0), R(0))
  /\ inp.right = Quaternion_create(Rat(-3, 5), Rat(4, 5), R(0), R(0))
  /\ out = Quaternion_create(Rat(3, 5), Rat(-4, 5), R(0), R(0))

\* C14: Quaternion.multiplyToRef and Quaternion.slerpToRef called with a
\* result that is one of the operands leave in it the value the same call
\* writes into a separate result object (the value multiply or slerp returns)
C14_QuaternionToRefToleratesAliasing ==
  pc \in {"multiplyToRef", "slerpToRef"} => out.got = out.fresh

\* C16: angleAxis(angle, axis) with an axis of squared length 0 returns the
\* identity quaternion (0, 0, 0, 1), whatever the angle
C16_AngleAxisZeroAxisIsIdentity ==
  (pc = "angleAxis" /\ Vector3_lengthSquared(inp.axis) = R(0)) =>
    out = Quaternion_create(R(0), R(0), R(0), R(1))

\* a half turn about the zero axis
C16_Witness ==
  /\ pc = "angleAxis"
  /\ inp.axis = Vector3_create(R(0), R(0), R(0))
  /\ inp.degress = R(180)
  /\ out = Quaternion_create(R(0), R(0), R(0), R(1))


\* from and to are parallel: their cross product is zero
Parallel(from, to) == Vector3_lengthSquared(Vector3_cross(from, to)) = R(0)

\* both non-zero and pointing the same way
SameDirection(from, to) == Parallel(from, to) /\ RLt(R(0), Vector3_dot(from, to))

\* opposite, or one of them zero
OppositeOrZero(from, to) == Parallel(from, to) /\ RLe(Vector3_dot(from, to), R(0))

\* C24: for parallel from and to, fromToRotation returns the identity
\* (0,0,0,1) when they point the same way and normalize((up.x, up.y, up.z, 0))
\* when they are opposite or one of them is zero; from (-1,0,0) to (1,0,0)
\* with up (0,1,0) gives (0,1,0,0)
C24_FromToRotationOfParallel ==
  pc \in {"fromToRotation", "fromToRotation_part004"} =>
    /\ SameDirection(inp.from, inp.to) => out = Quaternion_Identity
    /\ OppositeOrZero(inp.from, inp.to) =>
         out = Quaternion_normalize(Quaternion_create(inp.up.x, inp.up.y, inp.up.z, R(0)))
    /\ ( /\ inp.from = Vector3_create(R(-1), R(0), R(0))
         /\ inp.to = Vector3_create(R(1), R(0), R(0))
         /\ inp.up = Vector3_create(R(0), R(1), R(0)) ) =>
         out = Quaternion_create(R(0), R(1), R(0), R(0))

\* C26: Quaternion.normalize of (0,0,0,0), and fromToRotation of opposite
\* from and to with up = (0,0,0), return four finite components
C26_NoDivisionByZeroLength ==
  /\ (pc = "normalize" /\ inp = Quaternion_create(R(0), R(0), R(0), R(0))) =>
       ~IsNaN(out.x) /\ ~IsNaN(out.y) /\ ~IsNaN(out.z) /\ ~IsNaN(out.w)
  /\ ( /\ pc \in {"fromToRotation", "fromToRotation_part004"}
       /\ OppositeOrZero(inp.from, inp.to)
       /\ inp.from # Vector3_Zero /\ inp.to # Vector3_Zero
       /\ inp.up = Vector3_Zero ) =>
       ~IsNaN(out.x) /\ ~IsNaN(out.y) /\ ~IsNaN(out.z) /\ ~IsNaN(out.w)

-----------------------------------------------------------------------------
\* Vector3: single calls on vectors chosen so that every length is rational

Vector3Values ==
  { Vector3_create(R(0), R(0), R(0)), Vector3_create(R(1), R(0), R(0)),
    Vector3_create(R(0), R(1), R(0)), Vector3_create(R(0), R(0), R(-1)),
    Vector3_create(Rat(3, 5), Rat(4, 5), R(0)), Vector3_create(R(1), R(2), R(2)),
    Vector3_create(R(-2), R(3), R(6)), Vector3_create(R(0), R(-3), R(4)),
    Vector3_create(Half, R(0), R(0)), Vector3_create(R(4), R(-4), R(7)) }

InitVector3 == /\ mats = <<>>
               /\ _updateFlagSeed = 0
               /\ pc = "start"
               /\ inp = "none"
               /\ out = "none"

Vec_cross ==
  /\ pc = "start"
  /\ \E left \in Vector3Values, right \in Vector3Values :
       /\ inp' = [left |-> left, right |-> right]
       /\ out' = [ab |-> Vector3_cross(left, right),
                  ba |-> Vector3_cross(right, left)]
  /\ pc' = "cross"
  /\ UNCHANGED <<mats, _updateFlagSeed>>

\* what a result object holds before a call that is to overwrite it
ResultBefore == Vector3_create(R(7), R(8), R(9))

\* unit quaternions with rational components
UnitQuaternions ==
  { Quaternion_Identity, Quaternion_create(R(1), R(0), R(0), R(0)),
    Quaternion_create(Rat(3, 5), R(0), R(0), Rat(4, 5)),
    Quaternion_create(Half, Half, Half, Half),
    Quaternion_create(R(0), Rat(-4, 5), Rat(3, 5), R(0)),
    Quaternion_create(Half, RNeg(Half), Half, RNeg(Half)),
    Quaternion_create(Rat(2, 7), Rat(3, 7), Rat(-6, 7), R(0)) }

\* the calls below pass the operands a (and b) and a result that is the
\* object a (result = 1), the object b, or a third object; got is what the
\* result holds afterwards and fresh what a third object would hold after the
\* same call on the same operands
Vec_crossToRef ==
  /\ pc = "start"
  /\ \E a \in Vector3Values, b \in Vector3Values, result \in 1..3 :
       /\ inp' = [a |-> a, b |-> b, result |-> result]
       /\ out' = [got |-> Vector3_crossToRef(<<a, b, ResultBefore>>, 1, 2, result)[result],
                  fresh |-> Vector3_crossToRef(<<a, b, ResultBefore>>, 1, 2, 3)[3]]
  /\ pc' = "crossToRef"
  /\ UNCHANGED <<mats, _updateFlagSeed>>

Vec_addToRef ==
  /\ pc = "start"
  /\ \E a \in Vector3Values, b \in Vector3Values, result \in 1..3 :
       /\ inp' = [a |-> a, b |-> b, result |-> result]
       /\ out' = [got |-> Vector3_addToRef(<<a, b, ResultBefore>>, 1, 2, result)[result],
                  fresh |-> Vector3_addToRef(<<a, b, ResultBefore>>, 1, 2, 3)[3]]
  /\ pc' = "addToRef"
  /\ UNCHANGED <<mats, _updateFlagSeed>>

Vec_subtractToRef ==
  /\ pc = "start"
  /\ \E a \in Vector3Values, b \in Vector3Values, result \in 1..3 :
       /\ inp' = [a |-> a, b |-> b, result |-> result]
       /\ out' = [got |-> Vector3_subtractToRef(<<a, b, ResultBefore>>, 1, 2, result)[result],
                  fresh |-> Vector3_subtractToRef(<<a, b, ResultBefore>>, 1, 2, 3)[3]]
  /\ pc' = "subtractToRef"
  /\ UNCHANGED <<mats, _updateFlagSeed>>

Vec_multiplyToRef ==
  /\ pc = "start"
  /\ \E a \in Vector3Values, b \in Vector3Values, result \in 1..3 :
       /\ inp' = [a |-> a, b |-> b, result |-> result]
       /\ out' = [got |-> Vector3_multiplyToRef(<<a, b, ResultBefore>>, 1, 2, result)[result],
                  fresh |-> Vector3_multiplyToRef(<<a, b, ResultBefore>>, 1, 2, 3)[3]]
  /\ pc' = "multiplyToRef"
  /\ UNCHANGED <<mats, _updateFlagSeed>>

Vec_divideToRef ==
  /\ pc = "start"
  /\ \E a \in Vector3Values, b \in Vector3Values, result \in 1..3 :
       /\ inp' = [a |-> a, b |-> b, result |-> result]
       /\ b.x # R(0) /\ b.y # R(0) /\ b.z # R(0)
       /\ out' = [got |-> Vector3_divideToRef(<<a, b, ResultBefore>>, 1, 2, result)[result],
                  fresh |-> Vector3_divideToRef(<<a, b, ResultBefore>>, 1, 2, 3)[3]]
  /\ pc' = "divideToRef"
  /\ UNCHANGED <<mats, _updateFlagSeed>>

Vec_lerpToRef ==
  /\ pc = "start"
  /\ \E a \in Vector3Values, b \in Vector3Values, result \in 1..3 :
       \E amount \in {R(0), Half, R(2)} :
       /\ inp' = [a |-> a, b |-> b, result |-> result, amount |-> amount]
       /\ out' = [got |-> Vector3_lerpToRef(<<a, b, ResultBefore>>, 1, 2, amount, result)[result],
                  fresh |-> Vector3_lerpToRef(<<a, b, ResultBefore>>, 1, 2, amount, 3)[3]]
  /\ pc' = "lerpToRef"
  /\ UNCHANGED <<mats, _updateFlagSeed>>

Vec_scaleToRef ==
  /\ pc = "start"
  /\ \E a \in Vector3Values, result \in 1..2 :
       \E scale \in {R(0), R(-2), Half} :
       /\ inp' = [a |-> a, result |-> result, scale |-> scale]
       /\ out' = [got |-> Vector3_scaleToRef(<<a, ResultBefore>>, 1, scale, result)[result],
                  fresh |-> Vector3_scaleToRef(<<a, ResultBefore>>, 1, scale, 2)[2]]
  /\ pc' = "scaleToRef"
  /\ UNCHANGED <<mats, _updateFlagSeed>>

Vec_normalizeToRef ==
  /\ pc = "start"
  /\ \E a \in Vector3Values, result \in 1..2 :
       /\ inp' = [a |-> a, result |-> result]
       /\ out' = [got |-> Vector3_normalizeToRef(<<a, ResultBefore>>, 1, result)[result],
                  fresh |-> Vector3_normalizeToRef(<<a, ResultBefore>>, 1, 2)[2]]
  /\ pc' = "normalizeToRef"
  /\ UNCHANGED <<mats, _updateFlagSeed>>

Vec_normalizeToRef_part004 ==
  /\ pc = "start"
  /\ \E a \in Vector3Values, result \in 1..2 :
       /\ inp' = [a |-> a, result |-> result]
       /\ out' = [got |-> Vector3_normalizeToRef_part004(<<a, ResultBefore>>, 1, result)[result],
                  fresh |-> Vector3_normalizeToRef_part004(<<a, ResultBefore>>, 1, 2)[2]]
  /\ pc' = "normalizeToRef_part004"
  /\ UNCHANGED <<mats, _updateFlagSeed>>

Vec_normalizeFromLengthToRef ==
  /\ pc = "start"
  /\ \E a \in Vector3Values, result \in 1..2 :
       \E len \in {R(0), R(1), R(2)} :
       /\ inp' = [a |-> a, result |-> result, len |-> len]
       /\ out' = [got |-> Vector3_normalizeFromLengthToRef(<<a, ResultBefore>>, 1, len, result)[result],
                  fresh |-> Vector3_normalizeFromLengthToRef(<<a, ResultBefore>>, 1, len, 2)[2]]
  /\ pc' = "normalizeFromLengthToRef"
  /\ UNCHANGED <<mats, _updateFlagSeed>>

Vec_normalizeFromLengthToRef_part004 ==
  /\ pc = "start"
  /\ \E a \in Vector3Values, result \in 1..2 :
       \E len \in {R(0), R(1), R(2)} :
       /\ inp' = [a |-> a, result |-> result, len |-> len]
       /\ out' = [got |-> Vector3_normalizeFromLengthToRef_part004(<<a, ResultBefore>>, 1, len, result)[result],
                  fresh |-> Vector3_normalizeFromLengthToRef_part004(<<a, ResultBefore>>, 1, len, 2)[2]]
  /\ pc' = "normalizeFromLengthToRef_part004"
  /\ UNCHANGED <<mats, _updateFlagSeed>>

Vec_rotateToRef ==
  /\ pc = "start"
  /\ \E a \in Vector3Values, result \in 1..2 :
       \E q \in UnitQuaternions :
       /\ inp' = [a |-> a, result |-> result, q |-> q]
       /\ out' = [got |-> Vector3_rotateToRef(<<a, ResultBefore>>, 1, q, result)[result],
                  fresh |-> Vector3_rotateToRef(<<a, ResultBefore>>, 1, q, 2)[2]]
  /\ pc' = "rotateToRef"
  /\ UNCHANGED <<mats, _updateFlagSeed>>

Vec_normalize ==
  /\ pc = "start"
  /\ \E a \in Vector3Values :
       /\ inp' = [a |-> a]
       /\ out' = Vector3_normalize(a)
  /\ pc' = "normalize"
  /\ UNCHANGED <<mats, _updateFlagSeed>>

Vec_normalize_part004 ==
  /\ pc = "start"
  /\ \E a \in Vector3Values :
       /\ inp' = [a |-> a]
       /\ out' = Vector3_normalize_part004(a)
  /\ pc' = "normalize_part004"
  /\ UNCHANGED <<mats, _updateFlagSeed>>

\* the quaternions rotate is called with: the unit ones above, those
\* angleAxis returns for whole multiples of 180 degrees, and one of length
\* sqrt(2)
RotationQuaternions ==
  UnitQuaternions
  \cup { Quaternion_angleAxis(degress, axis) :
           degress \in {R(0), R(180), R(360), R(-180)},
           axis \in { Vector3_create(R(1), R(0), R(0)), Vector3_create(R(-1), R(0), R(0)),
                      Vector3_create(R(0), R(0), R(0)) } }
  \cup { Quaternion_create(R(1), R(1), R(0), R(0)) }

\* the quaternion of the same axis and the negated angle
SameAxisNegatedAngle(q) ==
  Quaternion_create(RNeg(q.x), RNeg(q.y), RNeg(q.z), q.w)

\* rotate(v, q) and then rotate(., q') on what it returned
Vec_rotate ==
  /\ pc = "start"
  /\ \E a \in Vector3Values, q \in RotationQuaternions :
       /\ inp' = [a |-> a, q |-> q]
       /\ out' = [there |-> Vector3_rotate(a, q),
                  back |-> Vector3_rotate(Vector3_rotate(a, q), SameAxisNegatedAngle(q))]
  /\ pc' = "rotate"
  /\ UNCHANGED <<mats, _updateFlagSeed>>

Vec_rotate_part004 ==
  /\ pc = "start"
  /\ \E a \in Vector3Values, q \in RotationQuaternions :
       /\ inp' = [a |-> a, q |-> q]
       /\ out' = [there |-> Vector3_rotate_part004(a, q),
                  back |-> Vector3_rotate_part004(Vector3_rotate_part004(a, q),
                                                  SameAxisNegatedAngle(q))]
  /\ pc' = "rotate_part004"
  /\ UNCHANGED <<mats, _updateFlagSeed>>

\* planes whose normal has a rational length, and one with a zero normal
PlaneValues ==
  { Plane_create(R(2), R(0), R(0), R(4)), Plane_create(R(1), R(0), R(0), R(2)),
    Plane_create(R(0), R(3), R(4), R(5)), Plane_create(R(1), R(2), R(2), R(-3)),
    Plane_create(Rat(3, 5), Rat(4, 5), R(0), R(-1)), Plane_create(R(0), R(0), Half, R(0)),
    Plane_create(R(0), R(0), R(0), R(1)) }

\* the plane with normal and d both multiplied by k: the same set of points
RescaledPlane(plane, k) ==
  Plane_create(plane.normal.x (.) k, plane.normal.y (.) k, plane.normal.z (.) k,
               plane.d (.) k)

Pl_normalize ==
  /\ pc = "start"
  /\ \E plane \in PlaneValues :
       /\ inp' = [plane |-> plane]
       /\ out' = Plane_normalize(plane)
  /\ pc' = "Plane.normalize"
  /\ UNCHANGED <<mats, _updateFlagSeed>>

\* Matrix.reflection of a plane and then of the same plane rescaled by k
Mat_reflection ==
  /\ pc = "start"
  /\ \E plane \in PlaneValues, k \in {R(2), R(3), Half, R(-1)} :
       LET w1 == reflection(TheWorld, plane)
           w2 == reflection(w1, RescaledPlane(plane, k))
       IN  /\ inp' = [plane |-> plane, k |-> k]
           /\ mats' = w2.mats
           /\ _updateFlagSeed' = w2.seed
  /\ out' = "none"
  /\ pc' = "reflection"

\* eye positions, directions from the eye to the target (none, along an axis,
\* oblique in the y-z plane) and up vectors parallel or not to them, all
\* with rational lengths of the axes computed from them
LookAtEyes == {Vector3_Zero, Vector3_create(R(1), R(2), R(3))}
LookAtDirections ==
  { Vector3_Zero, Vector3_create(R(0), R(0), R(1)), Vector3_create(R(0), R(0), R(-2)),
    Vector3_create(R(0), R(3), R(4)), Vector3_create(R(0), R(1), R(0)),
    Vector3_create(R(2), R(0), R(0)) }
LookAtUps ==
  { Vector3_Zero, Vector3_create(R(0), R(1), R(0)), Vector3_create(R(0), R(0), R(1)),
    Vector3_create(R(0), R(3), R(4)), Vector3_create(R(0), R(2), R(0)),
    Vector3_create(R(1), R(0), R(0)) }

TargetOf(eye, direction) ==
  Vector3_create(eye.x (+) direction.x, eye.y (+) direction.y, eye.z (+) direction.z)

\* result = create(), then the call on it
LookAt(called, eye, direction, up, w) ==
  /\ inp' = [eye |-> eye, up |-> up, target |-> TargetOf(eye, direction)]
  /\ mats' = w.mats
  /\ _updateFlagSeed' = w.seed
  /\ out' = "none"
  /\ pc' = called

Mat_lookAtLHToRef ==
  /\ pc = "start"
  /\ \E eye \in LookAtEyes, direction \in LookAtDirections, up \in LookAtUps :
       LookAt("lookAtLHToRef", eye, direction, up,
              lookAtLHToRef(create(TheWorld), eye, TargetOf(eye, direction), up, 1))

Mat_lookAtRHToRef ==
  /\ pc = "start"
  /\ \E eye \in LookAtEyes, direction \in LookAtDirections, up \in LookAtUps :
       LookAt("lookAtRHToRef", eye, direction, up,
              lookAtRHToRef(create(TheWorld), eye, TargetOf(eye, direction), up, 1))

Mat_lookAtLHToRef_part004 ==
  /\ pc = "start"
  /\ \E eye \in LookAtEyes, direction \in LookAtDirections, up \in LookAtUps :
       LookAt("lookAtLHToRef_part004", eye, direction, up,
              lookAtLHToRef_part004(create(TheWorld), eye, TargetOf(eye, direction), up, 1))

Mat_lookAtRHToRef_part004 ==
  /\ pc = "start"
  /\ \E eye \in LookAtEyes, direction \in LookAtDirections, up \in LookAtUps :
       LookAt("lookAtRHToRef_part004", eye, direction, up,
              lookAtRHToRef_part004(create(TheWorld), eye, TargetOf(eye, direction), up, 1))

NextVector3 == \/ Vec_cross
               \/ Vec_crossToRef
               \/ Vec_addToRef
               \/ Vec_subtractToRef
               \/ Vec_multiplyToRef
               \/ Vec_divideToRef
               \/ Vec_lerpToRef
               \/ Vec_scaleToRef
               \/ Vec_normalizeToRef
               \/ Vec_normalizeToRef_part004
               \/ Vec_normalizeFromLengthToRef
               \/ Vec_normalizeFromLengthToRef_part004
               \/ Vec_rotateToRef
               \/ Vec_normalize
               \/ Vec_normalize_part004
               \/ Vec_rotate
               \/ Vec_rotate_part004
               \/ Pl_normalize
               \/ Mat_reflection
               \/ Mat_lookAtLHToRef
               \/ Mat_lookAtRHToRef
               \/ Mat_lookAtLHToRef_part004
               \/ Mat_lookAtRHToRef_part004

SpecVector3 == InitVector3 /\ [][NextVector3]_vars

\* C12: cross(a, b) is cross(b, a) negated component by component, and is
\* (ly * rz - lz * ry, lz * rx - lx * rz, lx * ry - ly * rx)
C12_CrossAntisymmetric ==
  pc = "cross" =>
    /\ out.ab = Vector3_create(RNeg(out.ba.x), RNeg(out.ba.y), RNeg(out.ba.z))
    /\ out.ab = Vector3_create(
         inp.left.y (.) inp.right.z (-) inp.left.z (.) inp.right.y,
         inp.left.z (.) inp.right.x (-) inp.left.x (.) inp.right.z,
         inp.left.x (.) inp.right.y (-) inp.left.y (.) inp.right.x)

\* two vectors whose cross product has three non-zero components
C12_Witness ==
  /\ pc = "cross"
  /\ inp.left = Vector3_create(R(1), R(2), R(2))
  /\ inp.right = Vector3_create(R(-2), R(3), R(6))
  /\ out.ab = Vector3_create(R(6), R(-10), R(7))
  /\ out.ba = Vector3_create(R(-6), R(10), R(-7))

ToRefCalls ==
  { "crossToRef", "addToRef", "subtractToRef", "multiplyToRef", "divideToRef",
    "lerpToRef", "scaleToRef", "normalizeToRef", "normalizeToRef_part004",
    "normalizeFromLengthToRef", "normalizeFromLengthToRef_part004",
    "rotateToRef" }

\* C13: a Vector3 ...ToRef call whose result is one of its operands leaves in
\* it the value the same call writes into a separate result object
C13_ToRefToleratesAliasing ==
  pc \in ToRefCalls => out.got = out.fresh

\* C15: for a vector v of length exactly 0 or 1, normalize(v) returns a
\* vector with the three components of v, and normalizeToRef(v, result)
\* leaves result with the three components of v
C15_NormalizeKeepsUnitAndZero ==
  (pc \in {"normalize", "normalize_part004", "normalizeToRef", "normalizeToRef_part004"}
     /\ Vector3_length(inp.a) \in {R(0), R(1)}) =>
    IF pc \in {"normalize", "normalize_part004"}
      THEN out = inp.a
      ELSE out.got = inp.a

\* C17: for a unit quaternion q = (x, y, z, w) and q' = (-x, -y, -z, w),
\* rotate(rotate(v, q), q') has the three components of v
C17_RotateRoundTrip ==
  (pc \in {"rotate", "rotate_part004"} /\ Quaternion_lengthSquared(inp.q) = R(1)) =>
    out.back = inp.a

\* a third of a turn about (1, 1, 1) moves (1, 2, 2) and the reverse
\* rotation brings it back
C17_Witness ==
  /\ pc = "rotate_part004"
  /\ inp.a = Vector3_create(R(1), R(2), R(2))
  /\ inp.q = Quaternion_create(Half, Half, Half, Half)
  /\ out.there # inp.a
  /\ out.back = inp.a

\* C18: for a plane with a non-zero normal, Plane.normalize returns a plane
\* whose normal has length 1 and whose normal and d are those of the
\* argument multiplied by 1 / |normal|; and Matrix.reflection of a plane has
\* the elements of Matrix.reflection of the same plane rescaled
C18_PlaneNormalizeRescales ==
  /\ (pc = "Plane.normalize" /\ Vector3_lengthSquared(inp.plane.normal) # R(0)) =>
       /\ Vector3_lengthSquared(out.normal) = R(1)
       /\ out = RescaledPlane(inp.plane, R(1) (/) Vector3_length(inp.plane.normal))
  /\ (pc = "reflection" /\ Vector3_lengthSquared(inp.plane.normal) # R(0)) =>
       mats[1]._m = mats[2]._m

LookAtCalls ==
  {"lookAtLHToRef", "lookAtRHToRef", "lookAtLHToRef_part004", "lookAtRHToRef_part004"}

\* C25: when up and the direction between eye and target are parallel, or
\* one of them is zero, so that cross(up, zAxis) has squared length 0,
\* lookAtLHToRef and lookAtRHToRef take (1,0,0) as the x axis (elements 0, 4
\* and 8 of the result) and write 16 finite elements, no quotient by a zero
\* length among them
C25_LookAtDegenerateUsesXAxis ==
  (pc \in LookAtCalls /\ Parallel(inp.up, Vector3_subtractToRef(<<inp.target, inp.eye>>, 1, 2, 1)[1])) =>
    /\ mats[1]._m[0] = R(1)
    /\ mats[1]._m[4] = R(0)
    /\ mats[1]._m[8] = R(0)
    /\ FiniteElements(mats[1])

\* looking from (1,2,3) straight along up = (0,1,0): x axis (1,0,0), z axis
\* (0,1,0), y axis their cross product (0,0,-1), and the eye in those axes
C25_Witness ==
  /\ pc = "lookAtLHToRef"
  /\ inp.eye = Vector3_create(R(1), R(2), R(3))
  /\ inp.target = Vector3_create(R(1), R(3), R(3))
  /\ inp.up = Vector3_create(R(0), R(1), R(0))
  /\ mats[1]._m = M16(<< R(1), R(0), R(0), R(0),
                         R(0), R(0), R(1), R(0),
                         R(0), R(-1), R(0), R(0),
                         R(-1), R(3), R(-2), R(1) >>)
====
